---- MODULE Spec2Model ----
(***************************************************************************)
(* go_remind_me: the reminder collection, its reconciliation against a     *)
(* fresh parse of a document (reminder.MergeFromFile), the startup merge   *)
(* of main and the event loop of the TUI (tick, file update, user          *)
(* actions in normal mode, in the add/edit input and in the detail view),  *)
(* the parser (parser.ParseFile over the markers of a document,            *)
(* parser.parseReminderContent over datetime.Parse and parser.ExtractTags, *)
(* the latter also character by character), the relative durations of      *)
(* datetime.parseRelative in int64 nanoseconds, the state store            *)
(* (state.Store.Save and Load, and the saves Model.saveState starts), and  *)
(* the watcher with main's forwarding goroutine and the tick and wait      *)
(* commands of the program (watcher.Watcher, Model.Init).                  *)
(*                                                                         *)
(* A reminder is a record; the Go code handles *Reminder pointers, so each *)
(* record carries the identity of its allocation in the field id.  Time is *)
(* counted in units of five minutes; instant 0 is Monday 2006-01-02 15:00. *)
(* Text is a sequence of words.                                            *)
(***************************************************************************)
EXTENDS Integers, Sequences, FiniteSets, TLC

\* ---------------------------------------------------------------- bounds
\* Longest existing collection handed to MergeFromFile in SpecMerge.
MaxExisting == 2
\* Longest fresh parse of one document.
MaxFresh == 2
\* Largest collection the event loop holds (guards of add and file update).
MaxReminders == 2
\* Last instant of the clock.
MaxTime == 1
\* Longest saved state loaded at startup.
MaxSaved == 1
\* Longest marker content handed to parseReminderContent, in words.
MaxWords == 3
\* Most messages Update handles in one run of SpecTUI.
MaxEvents == 3
\* Most messages Update handles in one run of Spec.
MaxLoop == 4
\* Most lines of a scanned document, most markers of one line.
MaxLines == 2
MaxMarkers == 2
\* Longest relative phrase, in tokens after the '+'.
MaxTokens == 4
\* How many days the reference instants handed to datetime.Parse span.
WeekDays == 7
\* The longest collection handed to Store.Save.
MaxStored == 2
\* How many messages Update handles in a run that follows the saves.
MaxSaves == 2
\* How many messages Update handles in a run that follows the detail view.
MaxDetail == 4
\* How many file system events the watcher takes in a run.
MaxFileEvents == 2
\* Longest text handed to ExtractTags, in characters.
MaxChars == 5

\* ------------------------------------------------------------- the domain
\* reminder.Status
Pending == "Pending"
Triggered == "Triggered"
Acknowledged == "Acknowledged"
Status == {Pending, Triggered, Acknowledged}

\* Documents, and the origin of reminders added in the TUI.
Files == {"f1.md", "f2.md"}
\* The document given on the command line, which the watcher watches; the
\* saved state may hold reminders of documents of earlier runs.
WatchedFiles == {"f1.md"}
TUIOrigin == "(added in TUI)"
Descriptions == {"a", "b"}

\* reminder.Reminder, with the identity of the allocation.
Reminder(id, when, desc, tags, file, line, status) ==
    [id |-> id, DateTime |-> when, Description |-> desc, Tags |-> tags,
     SourceFile |-> file, LineNumber |-> line, Status |-> status]

Range(s) == {s[i] : i \in 1..Len(s)}
\* The allocations a slice points to.
Ids(s) == {s[i].id : i \in 1..Len(s)}

\* --------------------------------------------------------- MergeFromFile
\* newByDesc: only the presence of a key is ever read.
NewByDesc(newReminders) == {newReminders[i].Description : i \in 1..Len(newReminders)}

\* Faulty variants of KeepExisting: acknowledged reminders are not kept;
\* stale reminders are kept; the origin is not looked at.
KeepExistingDropsAcknowledged(r, filePath, newByDesc) ==
    \/ r.SourceFile # filePath
    \/ r.Description \in newByDesc

KeepExistingKeepsStale(r, filePath, newByDesc) ==
    TRUE

KeepExistingIgnoresOrigin(r, filePath, newByDesc) ==
    \/ r.Status = Acknowledged
    \/ r.Description \in newByDesc

\* The three branches of the first loop that append r to result.
KeepExisting(r, filePath, newByDesc) ==
    \/ r.SourceFile # filePath
    \/ r.Status = Acknowledged
    \/ r.Description \in newByDesc

\* Faulty variant of MarksMatched: an acknowledged reminder does not mark
\* its description.
MarksMatchedNotAcknowledged(r, filePath, newByDesc) ==
    /\ r.SourceFile = filePath
    /\ r.Status # Acknowledged
    /\ r.Description \in newByDesc

\* Faulty variant of MarksMatched: the origin is not looked at.
MarksMatchedIgnoresOrigin(r, filePath, newByDesc) ==
    \/ r.Status = Acknowledged
    \/ r.Description \in newByDesc

\* The two branches of the first loop that set matchedDescs[r.Description].
MarksMatched(r, filePath, newByDesc) ==
    /\ r.SourceFile = filePath
    /\ \/ r.Status = Acknowledged
       \/ r.Description \in newByDesc

\* The first loop, from index i on: <<result, matchedDescs>>.
RECURSIVE MergeExisting(_, _, _, _, _, _)
MergeExisting(existing, filePath, newByDesc, i, result, matchedDescs) ==
    IF i > Len(existing) THEN <<result, matchedDescs>>
    ELSE LET r == existing[i] IN
         MergeExisting(existing, filePath, newByDesc, i + 1,
             IF KeepExisting(r, filePath, newByDesc) THEN Append(result, r) ELSE result,
             IF MarksMatched(r, filePath, newByDesc)
                 THEN matchedDescs \cup {r.Description} ELSE matchedDescs)

\* Faulty variant of AppendNew: every fresh entry is appended.
RECURSIVE AppendNewAll(_, _, _, _)
AppendNewAll(newReminders, matchedDescs, i, result) ==
    IF i > Len(newReminders) THEN result
    ELSE AppendNewAll(newReminders, matchedDescs, i + 1, Append(result, newReminders[i]))

\* The second loop, from index i on.
RECURSIVE AppendNew(_, _, _, _)
AppendNew(newReminders, matchedDescs, i, result) ==
    IF i > Len(newReminders) THEN result
    ELSE LET r == newReminders[i] IN
         AppendNew(newReminders, matchedDescs, i + 1,
             IF r.Description \notin matchedDescs THEN Append(result, r) ELSE result)

\* Faulty variant of MergeFromFile: a matched existing reminder takes the fields of
\* the last fresh entry with its description, keeping its status only.
RefreshFrom(r, filePath, newReminders) ==
    LET hits == {i \in 1..Len(newReminders) :
                    newReminders[i].Description = r.Description}
    IN IF r.SourceFile = filePath /\ r.Status # Acknowledged /\ hits # {}
       THEN LET n == newReminders[CHOOSE i \in hits : \A j \in hits : j <= i]
            IN [r EXCEPT !.DateTime = n.DateTime, !.Tags = n.Tags,
                         !.LineNumber = n.LineNumber]
       ELSE r

MergeFromFileRefreshes(existing, filePath, newReminders) ==
    LET first == MergeExisting(existing, filePath, NewByDesc(newReminders), 1, <<>>, {})
        kept == [i \in 1..Len(first[1]) |-> RefreshFrom(first[1][i], filePath, newReminders)]
    IN AppendNew(newReminders, first[2], 1, kept)

\* reminder.MergeFromFile
MergeFromFile(existing, filePath, newReminders) ==
    LET first == MergeExisting(existing, filePath, NewByDesc(newReminders), 1, <<>>, {})
    IN AppendNew(newReminders, first[2], 1, first[1])

\* ------------------------------------------------------- SortByDateTime
Perms(n) == {p \in [1..n -> 1..n] : \A i, j \in 1..n : i # j => p[i] # p[j]}

IsSortedByDateTime(s) ==
    \A i \in 1..(Len(s) - 1) : s[i].DateTime <= s[i + 1].DateTime

\* Faulty variant of SortByDateTime: the slice is left as it is.
SortByDateTimeSkipped(s) == {s}

\* reminder.SortByDateTime: sort.Slice with less = DateTime.Before, which is
\* not stable, so every ordering by non-decreasing DateTime is an outcome.
SortByDateTime(s) ==
    {t \in {[i \in 1..Len(s) |-> s[p[i]]] : p \in Perms(Len(s))} :
        IsSortedByDateTime(t)}

\* ------------------------------------------------------------- IsDue, tick
\* Faulty variant of IsDue: due from the instant of DateTime on.
IsDueAtOrAfter(r, t) == t >= r.DateTime

\* Reminder.IsDue with time.Now() = t: time.Now().After(r.DateTime).
IsDue(r, t) == t > r.DateTime

\* Faulty variant of TickScan: a due reminder is moved to the front.
TickScanReorders(rs, t1, k, t2) ==
    LET due(i) == rs[i].Status = Pending /\ IsDue(rs[i], IF i <= k THEN t1 ELSE t2)
        fire(r) == [r EXCEPT !.Status = Triggered]
        dueIx == {i \in 1..Len(rs) : due(i)}
    IN IF dueIx = {} THEN rs
       ELSE LET d == CHOOSE i \in dueIx : \A j \in dueIx : i <= j
                rest == SelectSeq([i \in 1..Len(rs) |->
                                     IF due(i) THEN fire(rs[i]) ELSE rs[i]],
                                  LAMBDA r : r.id # rs[d].id)
            IN <<fire(rs[d])>> \o rest

\* The loop of the TickMsg case: IsDue reads the clock for each reminder; the
\* first k reads give t1 and the later ones t2.
TickScan(rs, t1, k, t2) ==
    [i \in 1..Len(rs) |->
        IF rs[i].Status = Pending /\ IsDue(rs[i], IF i <= k THEN t1 ELSE t2)
        THEN [rs[i] EXCEPT !.Status = Triggered]
        ELSE rs[i]]

\* ----------------------------------------------------------- allocation
\* The n smallest identities not in used, in increasing order.
RECURSIVE FreshIds(_, _, _)
FreshIds(used, n, from) ==
    IF n = 0 THEN <<>>
    ELSE IF from \in used THEN FreshIds(used, n, from + 1)
    ELSE <<from>> \o FreshIds(used, n - 1, from + 1)

\* The event loop names the allocations by their place in the collection:
\* after each event the i-th reminder of the collection is allocation i.
Renumber(s) == [i \in 1..Len(s) |-> [s[i] EXCEPT !.id = i]]
Sorted(s) == {Renumber(t) : t \in SortByDateTime(s)}

\* ------------------------------------------------------ datetime.Parse
\* A text is given as its words (strings.Fields).  The words the model types:
\* a date, times of day, a weekday, "tomorrow", relative offsets, plain words
\* and a tag token.
DateWords == {"2006-01-02"}
ClockWords == {"15:00", "15:05"}
TimeWords == ClockWords \cup {"10am"}
WeekdayWords == {"friday"}
RelativeWords == {"+5m", "+1h"}
PlainWords == {"a", "b"}
TagWords == {"#work"}
Vocabulary ==
    DateWords \cup TimeWords \cup WeekdayWords \cup {"tomorrow"}
        \cup RelativeWords \cup PlainWords \cup TagWords

\* strings.Join(words, " ")
RECURSIVE Join(_)
Join(words) ==
    IF words = <<>> THEN ""
    ELSE IF Len(words) = 1 THEN words[1]
    ELSE words[1] \o " " \o Join(Tail(words))

\* Instant 0 is 2006-01-02 15:00, a Monday; a day has 288 units of 5 minutes
\* and 15:00 is the 180th unit of its day.
HourUnits == 12
DayUnits == 24 * HourUnits
EpochOfDay == 15 * HourUnits
\* time.Date(t.Year(), t.Month(), t.Day(), 0, 0, 0, 0, time.Local)
StartOfDay(t) == t - ((t + EpochOfDay) % DayUnits)
\* t.Weekday(): Sunday is 0, Monday is 1.
Weekday(t) == (1 + ((t + EpochOfDay) \div DayUnits)) % 7
\* The map weekdays: time.Sunday is 0.
weekdays ==
    ("sunday" :> 0) @@ ("sun" :> 0) @@ ("monday" :> 1) @@ ("mon" :> 1)
        @@ ("tuesday" :> 2) @@ ("tue" :> 2) @@ ("tues" :> 2)
        @@ ("wednesday" :> 3) @@ ("wed" :> 3)
        @@ ("thursday" :> 4) @@ ("thu" :> 4) @@ ("thurs" :> 4)
        @@ ("friday" :> 5) @@ ("fri" :> 5) @@ ("saturday" :> 6) @@ ("sat" :> 6)
\* strings.ToLower on the words that are typed with capitals.
Capitals ==
    ("Friday" :> "friday") @@ ("FRI" :> "fri") @@ ("MONDAY" :> "monday")
        @@ ("Tomorrow" :> "tomorrow")
ToLower(w) == IF w \in DOMAIN Capitals THEN Capitals[w] ELSE w
\* The hour and minute a word of timeOnlyFormats parses to, from midnight.
TimeOfDay(w) ==
    IF w = "15:00" THEN 15 * HourUnits
    ELSE IF w = "15:05" THEN 15 * HourUnits + 1
    ELSE 10 * HourUnits
\* The default hour of parseTomorrow and parseWeekday, 9am.
NineAM == 9 * HourUnits
\* The midnight of the date a word of the layout 2006-01-02 parses to.
DateOf(w) == 0 - EpochOfDay
\* The offset of a word of relativePattern.
OffsetOf(w) == IF w = "+5m" THEN 1 ELSE HourUnits

Resolved(t) == [ok |-> TRUE, t |-> t]
Unresolved == [ok |-> FALSE, t |-> 0]

\* The loop over timeOnlyFormats: the words form one time of day.
IsTimeOnly(words) == Len(words) = 1 /\ words[1] \in TimeWords

\* Faulty variant of parseTomorrow: the time of day of relativeTo is kept.
parseTomorrowSameTime(words, relativeTo) ==
    LET tomorrow == relativeTo + DayUnits
    IN IF Len(words) = 1 THEN Resolved(tomorrow)
       ELSE IF IsTimeOnly(Tail(words))
            THEN Resolved(StartOfDay(tomorrow) + TimeOfDay(words[2]))
       ELSE Unresolved

parseTomorrow(words, relativeTo) ==
    LET tomorrow == relativeTo + DayUnits
    IN IF Len(words) = 1 THEN Resolved(StartOfDay(tomorrow) + NineAM)
       ELSE IF IsTimeOnly(Tail(words))
            THEN Resolved(StartOfDay(tomorrow) + TimeOfDay(words[2]))
       ELSE Unresolved

\* Faulty variant of parseWeekday: the weekday of relativeTo is today.
parseWeekdayToday(words, relativeTo) ==
    IF words = <<>> \/ ToLower(words[1]) \notin DOMAIN weekdays THEN Unresolved
    ELSE LET diff == weekdays[ToLower(words[1])] - Weekday(relativeTo)
             daysUntil == IF diff < 0 THEN diff + 7 ELSE diff
             targetDate == relativeTo + daysUntil * DayUnits
         IN IF Len(words) = 1 THEN Resolved(StartOfDay(targetDate) + NineAM)
            ELSE IF IsTimeOnly(Tail(words))
                 THEN Resolved(StartOfDay(targetDate) + TimeOfDay(words[2]))
            ELSE Unresolved

\* parseWeekday(lower, relativeTo): Parse hands it the text in lower case.
parseWeekday(words, relativeTo) ==
    IF words = <<>> \/ ToLower(words[1]) \notin DOMAIN weekdays THEN Unresolved
    ELSE LET diff == weekdays[ToLower(words[1])] - Weekday(relativeTo)
             daysUntil == IF diff <= 0 THEN diff + 7 ELSE diff
             targetDate == relativeTo + daysUntil * DayUnits
         IN IF Len(words) = 1 THEN Resolved(StartOfDay(targetDate) + NineAM)
            ELSE IF IsTimeOnly(Tail(words))
                 THEN Resolved(StartOfDay(targetDate) + TimeOfDay(words[2]))
            ELSE Unresolved

parseRelative(words, relativeTo) == Resolved(relativeTo + OffsetOf(words[1]))

\* datetime.Parse on the text Join(words): the branches in the order of the
\* code.  No word of the vocabulary starts the "in X days" pattern.
Parse(words, relativeTo) ==
    IF words # <<>> /\ ToLower(words[1]) = "tomorrow"
        THEN parseTomorrow(words, relativeTo)
    ELSE IF parseWeekday(words, relativeTo).ok THEN parseWeekday(words, relativeTo)
    ELSE IF Len(words) = 1 /\ words[1] \in RelativeWords
         THEN parseRelative(words, relativeTo)
    ELSE IF Len(words) = 2 /\ words[1] \in DateWords /\ words[2] \in ClockWords
         THEN Resolved(DateOf(words[1]) + TimeOfDay(words[2]))
    ELSE IF IsTimeOnly(words)
         THEN Resolved(StartOfDay(relativeTo) + TimeOfDay(words[1]))
    ELSE Unresolved

\* ------------------------------------------------- parser.ExtractTags
\* tagPattern on one word: '#' followed by word characters.
IsTagToken(w) == w \in TagWords
\* The submatch of tagPattern: the word without its '#'.
TagName(w) == "work"

\* ExtractTags on the text Join(words): the tag tokens are taken out of the
\* text and the rest is joined with single spaces.
ExtractTags(words) ==
    LET tagTokens == SelectSeq(words, IsTagToken)
    IN [cleanText |-> Join(SelectSeq(words, LAMBDA w : ~IsTagToken(w))),
        tags |-> [i \in 1..Len(tagTokens) |-> TagName(tagTokens[i])]]

\* ------------------------------------------- parseReminderContent
Prefix(words, n) == SubSeq(words, 1, n)
Rest(words, n) == SubSeq(words, n + 1, Len(words))

Parsed(numDateWords, parsedTime, extracted) ==
    [ok |-> TRUE, numDateWords |-> numDateWords, DateTime |-> parsedTime,
     Description |-> extracted.cleanText, Tags |-> extracted.tags]
NotParsed ==
    [ok |-> FALSE, numDateWords |-> 0, DateTime |-> 0, Description |-> "",
     Tags |-> <<>>]

\* Faulty variant of TryPrefixes: the shortest prefix is tried first.
RECURSIVE TryPrefixesShortestFirst(_, _, _)
TryPrefixesShortestFirst(words, relativeTo, numDateWords) ==
    LET n == Len(words) - numDateWords
    IN IF numDateWords < 1 THEN NotParsed
       ELSE IF Parse(Prefix(words, n), relativeTo).ok
            THEN Parsed(n, Parse(Prefix(words, n), relativeTo).t,
                        ExtractTags(Rest(words, n)))
       ELSE TryPrefixesShortestFirst(words, relativeTo, numDateWords - 1)

\* The loop "for numDateWords := len(words) - 1; numDateWords >= 1;
\* numDateWords--" of parseReminderContent, addReminder and updateReminder,
\* from numDateWords on.
RECURSIVE TryPrefixes(_, _, _)
TryPrefixes(words, relativeTo, numDateWords) ==
    IF numDateWords < 1 THEN NotParsed
    ELSE IF Parse(Prefix(words, numDateWords), relativeTo).ok
         THEN Parsed(numDateWords, Parse(Prefix(words, numDateWords), relativeTo).t,
                     ExtractTags(Rest(words, numDateWords)))
    ELSE TryPrefixes(words, relativeTo, numDateWords - 1)

\* parseReminderContent(content, relativeTo), content given as its words.
parseReminderContent(words, relativeTo) ==
    IF Len(words) < 2 THEN NotParsed
    ELSE TryPrefixes(words, relativeTo, Len(words) - 1)

\* ------------------------------------------ datetime.parseRelative
\* A time.Duration is an int64 count of nanoseconds.  Its value is written
\* here as minutes, seconds and nanoseconds, min * 60 * 10^9 + sec * 10^9 +
\* nsec with sec in 0..59 and nsec in 0..10^9 - 1, so that every part stays
\* within the integers of the model checker.
NanosPerSecond == 1000000000
Duration(min, sec, nsec) == [min |-> min, sec |-> sec, nsec |-> nsec]
\* math.MaxInt64 = 9223372036854775807 and 2^64 = 18446744073709551616.
MaxInt64 == Duration(153722867, 16, 854775807)
TwoTo64 == Duration(307445734, 33, 709551616)
DurationLess(a, b) ==
    \/ a.min < b.min
    \/ a.min = b.min /\ a.sec < b.sec
    \/ a.min = b.min /\ a.sec = b.sec /\ a.nsec < b.nsec
\* The parts brought back into their ranges.
Normalized(min, sec, nsec) ==
    LET s1 == sec + (IF nsec < 0 THEN 0 - 1 ELSE nsec \div NanosPerSecond)
        n1 == nsec % NanosPerSecond
        m1 == min + (IF s1 < 0 THEN 0 - 1 ELSE s1 \div 60)
    IN Duration(m1, s1 % 60, n1)
DurationAdd(a, b) == Normalized(a.min + b.min, a.sec + b.sec, a.nsec + b.nsec)
DurationSub(a, b) == Normalized(a.min - b.min, a.sec - b.sec, a.nsec - b.nsec)
\* The int64 that holds a product of at most 2^64 + 2^63 - 1: the value
\* modulo 2^64, read as a signed number.
Wrap64(d) == IF DurationLess(MaxInt64, d) THEN DurationSub(d, TwoTo64) ELSE d

\* time.Duration(num) * the unit of the switch, as the int64 holds it.
MinutesOf(unit) == IF unit = "d" THEN 24 * 60 ELSE IF unit = "h" THEN 60 ELSE 1
UnitProduct(num, unit) ==
    IF unit = "s" THEN Duration(num \div 60, num % 60, 0)
    ELSE Duration(num * MinutesOf(unit), 0, 0)
PairDuration(num, unit) == Wrap64(UnitProduct(num, unit))

\* The text after the leading '+' is given as its tokens: a run of digits
\* (the number it writes) or one other character.
NumberToken(n) == [digits |-> TRUE, num |-> n, char |-> ""]
CharToken(c) == [digits |-> FALSE, num |-> 0, char |-> c]
Units == {"d", "h", "m", "s"}
NoDuration == Duration(0, 0, 0)
RelativeResult(ok, plus) == [ok |-> ok, plus |-> plus]

\* relativePattern, ^\+(\d+[dhms])+$, on the tokens from place i on.
RECURSIVE MatchesPairs(_, _)
MatchesPairs(tokens, i) ==
    /\ i + 1 <= Len(tokens)
    /\ tokens[i].digits
    /\ ~tokens[i + 1].digits
    /\ tokens[i + 1].char \in Units
    /\ (i + 1 = Len(tokens) \/ MatchesPairs(tokens, i + 2))
relativePattern(tokens) == MatchesPairs(tokens, 1)

\* The loop of parseRelative over the characters, from token i on: current
\* is the number read and not yet used (<<>>: none), result the offset
\* added to relativeTo so far.
RECURSIVE RelativeLoop(_, _, _, _)
RelativeLoop(tokens, i, current, result) ==
    IF i > Len(tokens) THEN RelativeResult(TRUE, result)
    ELSE IF tokens[i].digits
         THEN RelativeLoop(tokens, i + 1, <<tokens[i].num>>, result)
    ELSE IF current = <<>> THEN RelativeResult(FALSE, NoDuration)
    ELSE IF tokens[i].char \notin Units THEN RelativeResult(FALSE, NoDuration)
    ELSE RelativeLoop(tokens, i + 1, <<>>,
            DurationAdd(result, PairDuration(current[1], tokens[i].char)))

\* datetime.Parse on '+' followed by the tokens: parseRelative when
\* relativePattern matches; no other branch of Parse accepts such a text.
ParseRelativeTokens(tokens) ==
    IF relativePattern(tokens) THEN RelativeLoop(tokens, 1, <<>>, NoDuration)
    ELSE RelativeResult(FALSE, NoDuration)

\* ------------------------------------- parser.ExtractTags, by character
\* A text is given as its characters: '#', a word character and a space.
Alphabet == {"#", "a", " "}
IsWordChar(c) == c = "a"
IsSpace(c) == c = " "

\* \w+ at place i: how many word characters follow each other from i on.
RECURSIVE WordRun(_, _)
WordRun(text, i) ==
    IF i > Len(text) \/ ~IsWordChar(text[i]) THEN 0
    ELSE 1 + WordRun(text, i + 1)

\* tagPattern, (?:^|\s)#(\w+), tried at place i: the length of the match,
\* 0 when there is none.  ^ is the start of the text only.
MatchAt(text, i) ==
    IF i = 1 /\ text[1] = "#" /\ WordRun(text, 2) > 0
        THEN 1 + WordRun(text, 2)
    ELSE IF /\ IsSpace(text[i])
            /\ i + 1 <= Len(text)
            /\ text[i + 1] = "#"
            /\ WordRun(text, i + 2) > 0
        THEN 2 + WordRun(text, i + 2)
    ELSE 0

\* tagPattern.FindAllStringSubmatch from place i on: submatch 1 of the
\* leftmost matches, which do not overlap.
RECURSIVE FindAllTags(_, _)
FindAllTags(text, i) ==
    IF i > Len(text) THEN <<>>
    ELSE LET n == MatchAt(text, i)
         IN IF n = 0 THEN FindAllTags(text, i + 1)
            ELSE LET hash == IF IsSpace(text[i]) THEN i + 1 ELSE i
                 IN <<SubSeq(text, hash + 1, i + n - 1)>> \o FindAllTags(text, i + n)

\* tagPattern.ReplaceAllString(text, "") from place i on.
RECURSIVE ReplaceAllTags(_, _)
ReplaceAllTags(text, i) ==
    IF i > Len(text) THEN <<>>
    ELSE LET n == MatchAt(text, i)
         IN IF n = 0 THEN <<text[i]>> \o ReplaceAllTags(text, i + 1)
            ELSE ReplaceAllTags(text, i + n)

\* strings.Fields: the maximal runs of characters that are not spaces; word
\* is the run being read.
RECURSIVE Fields(_, _, _)
Fields(text, i, word) ==
    IF i > Len(text) THEN (IF word = <<>> THEN <<>> ELSE <<word>>)
    ELSE IF IsSpace(text[i])
         THEN (IF word = <<>> THEN <<>> ELSE <<word>>) \o Fields(text, i + 1, <<>>)
    ELSE Fields(text, i + 1, Append(word, text[i]))

\* strings.Join(fields, " ") on character sequences.
RECURSIVE JoinFields(_)
JoinFields(fields) ==
    IF fields = <<>> THEN <<>>
    ELSE IF Len(fields) = 1 THEN fields[1]
    ELSE fields[1] \o <<" ">> \o JoinFields(Tail(fields))

\* ExtractTags(text): strings.TrimSpace before strings.Fields changes nothing
\* that Fields does not drop.
ExtractTagsText(text) ==
    [cleanText |-> JoinFields(Fields(ReplaceAllTags(text, 1), 1, <<>>)),
     tags |-> FindAllTags(text, 1)]

\* ----------------------------------------------------- parser.ParseFile
\* A document is given as its lines, a line as the submatches of
\* remindPattern on it from left to right, a submatch as its words.
\* The reminder ParseFile appends for the content of one match.
Scanned(id, parsed, filepath, lineNumber) ==
    Reminder(id, parsed.DateTime, parsed.Description, parsed.Tags, filepath,
             lineNumber, Pending)

\* The loop over the matches of one line, from match k on.
RECURSIVE ScanMatches(_, _, _, _, _, _)
ScanMatches(matches, k, filepath, lineNumber, relativeTo, rs) ==
    IF k > Len(matches) THEN rs
    ELSE LET parsed == parseReminderContent(matches[k], relativeTo)
         IN IF ~parsed.ok
            THEN ScanMatches(matches, k + 1, filepath, lineNumber, relativeTo, rs)
            ELSE ScanMatches(matches, k + 1, filepath, lineNumber, relativeTo,
                    Append(rs, Scanned(Len(rs) + 1, parsed, filepath, lineNumber)))

\* Faulty variants of ScanLines: the scan stops at the first line with a
\* match that is no reminder; the line numbers start at 0.
RECURSIVE ScanLinesStopsAtInvalid(_, _, _, _, _)
ScanLinesStopsAtInvalid(lines, lineNumber, filepath, relativeTo, rs) ==
    IF lineNumber >= Len(lines) THEN rs
    ELSE IF \E k \in 1..Len(lines[lineNumber + 1]) :
                ~parseReminderContent(lines[lineNumber + 1][k], relativeTo).ok
         THEN rs
    ELSE ScanLinesStopsAtInvalid(lines, lineNumber + 1, filepath, relativeTo,
            ScanMatches(lines[lineNumber + 1], 1, filepath, lineNumber + 1,
                        relativeTo, rs))
RECURSIVE ScanLinesFromZero(_, _, _, _, _)
ScanLinesFromZero(lines, lineNumber, filepath, relativeTo, rs) ==
    IF lineNumber >= Len(lines) THEN rs
    ELSE ScanLinesFromZero(lines, lineNumber + 1, filepath, relativeTo,
            ScanMatches(lines[lineNumber + 1], 1, filepath, lineNumber,
                        relativeTo, rs))

\* The loop "for scanner.Scan()": lineNumber lines are read, the next one is
\* line lineNumber + 1.
RECURSIVE ScanLines(_, _, _, _, _)
ScanLines(lines, lineNumber, filepath, relativeTo, rs) ==
    IF lineNumber >= Len(lines) THEN rs
    ELSE ScanLines(lines, lineNumber + 1, filepath, relativeTo,
            ScanMatches(lines[lineNumber + 1], 1, filepath, lineNumber + 1,
                        relativeTo, rs))

\* ParseFile(filepath, relativeTo) on a document that opens and reads.
ParseFileLines(filepath, lines, relativeTo) ==
    [err |-> FALSE, reminders |-> ScanLines(lines, 0, filepath, relativeTo, <<>>)]

\* ------------------------------------------------------------ state.Store
\* The year of an instant must lie in 0..9999 for time.Time.MarshalJSON:
\* YearZero is 0000-01-01 00:00 and YearTenThousand is 10000-01-01 00:00.
YearZero == -211011444
YearTenThousand == 840886956

\* int(r.Status) and reminder.Status(sr.Status).
StatusInt(status) ==
    CASE status = Pending -> 0
      [] status = Triggered -> 1
      [] status = Acknowledged -> 2
StatusOfInt(n) ==
    CASE n = 0 -> Pending
      [] n = 1 -> Triggered
      [] n = 2 -> Acknowledged

\* The JSON text of an instant is a calendar date and a time of day; here
\* the date is counted in days from 2006-01-02 and the time in units.
MarshalTime(t) ==
    IF t < YearZero \/ t >= YearTenThousand
    THEN [err |-> TRUE, date |-> 0, clock |-> 0]
    ELSE [err |-> FALSE, date |-> (t + EpochOfDay) \div DayUnits,
          clock |-> (t + EpochOfDay) % DayUnits]
UnmarshalTime(text) == text.date * DayUnits + text.clock - EpochOfDay

\* One savedReminder as JSON: "tags" is left out when there are none
\* (omitempty), which is a sequence of no or one value here.
savedReminder(r) ==
    [datetime |-> [date |-> MarshalTime(r.DateTime).date,
                   clock |-> MarshalTime(r.DateTime).clock],
     description |-> r.Description,
     tags |-> IF r.Tags = <<>> THEN <<>> ELSE <<r.Tags>>,
     source_file |-> r.SourceFile,
     status |-> StatusInt(r.Status)]

\* json.MarshalIndent of the collection: an error when one instant cannot
\* be written.
MarshalIndent(rs) ==
    IF \E i \in 1..Len(rs) : MarshalTime(rs[i].DateTime).err
    THEN [err |-> TRUE, data |-> <<>>]
    ELSE [err |-> FALSE, data |-> [i \in 1..Len(rs) |-> savedReminder(rs[i])]]

\* The state file: none, or one with a JSON array in it.
NoFile == <<>>
FileOf(data) == <<data>>

\* Store.Save: the file is written only when the collection was marshalled.
\* A failure of the write itself is the environment's and is left out.
Save(file, rs) ==
    IF MarshalIndent(rs).err
    THEN [err |-> TRUE, file |-> file]
    ELSE [err |-> FALSE, file |-> FileOf(MarshalIndent(rs).data)]

\* Store.Load: no reminders when there is no file; the loaded reminders are
\* new allocations without a line number.
Load(file) ==
    IF file = NoFile
    THEN <<>>
    ELSE LET saved == file[1]
         IN [i \in 1..Len(saved) |->
                Reminder(i, UnmarshalTime(saved[i].datetime), saved[i].description,
                         IF saved[i].tags = <<>> THEN <<>> ELSE saved[i].tags[1],
                         saved[i].source_file, 0, StatusOfInt(saved[i].status))]

\* ------------------------------------------------------------------ state
VARIABLES
    \* MergeFromFile applied to drawn inputs (SpecMerge)
    mPc,        \* "input", "merged", "remerged"; "off" in the other specifications
    mExisting,  \* the argument existing
    mFile,      \* the argument filePath
    mNew,       \* the argument newReminders
    mOut,       \* MergeFromFile(mExisting, mFile, mNew)
    mOut2,      \* MergeFromFile(mOut, mFile, mNew)
    \* a function of parser, datetime or state applied to drawn inputs
    \* (SpecParse, SpecScan, SpecTags, SpecResolve, SpecRelative, SpecStore)
    pPc,         \* "input", "parsed" and the like; "off" in the other specifications
    pContent,    \* the argument: content, document, text, phrase or collection
    pRelativeTo, \* the argument relativeTo
    pResult,     \* what the function returns
    \* main and the event loop (Spec, SpecTUI, SpecSave, SpecDetail, SpecWatch,
    \* SpecTick)
    pc,            \* "merge": main at its startup merge loop; "run": the TUI runs;
                   \* "quit": Run returned; "stopped": after the deferred w.Stop()
    reminders,     \* main's reminders, then Model.reminders
    fileReminders, \* main's fileReminders, the result of ParseInitial
    startIdx,      \* index of fr in main's loop over fileReminders
    now,           \* the clock: what time.Now() returns
    compactIndex,  \* Model.compactIndex, 0-based
    mode,          \* Model.mode: "normal", "filter", "add", "theme" or "detail"
    inputError,    \* Model.inputError
    editingReminder, \* Model.editingReminder
    detailReminder,  \* Model.detailReminder
    pendingDelete,   \* Model.pendingDelete
    budget,        \* how many more messages Update handles in this run; -1: any
    lastEvent,     \* the message Update handled last: its kind, the file path and
                   \* the descriptions of a file update, the clock at the start
                   \* of a tick, the status the reminder of a key had before
    \* state.Store (SpecStore, SpecSave)
    stateFile,     \* the state file: <<>> when there is none, else <<its JSON array>>
    saves,         \* the goroutines Model.saveState started that have not ended
    \* the watcher, main's forwarding goroutine and the commands of the
    \* program (SpecWatch, SpecTick)
    channels,      \* what w.Events and tuiEvents hold, and which channels are closed
    goroutines,    \* where Watcher.run and the forwarding goroutine stand and what
                   \* they hold, the commands of the program that have not
                   \* delivered their message; and what failed so far: the file
                   \* events (by serial number) and the documents of the first
                   \* scan; and the file events scanned after Watcher.Stop
    applied        \* the file events Update has handled, by their serial number

mergeVars == <<mPc, mExisting, mFile, mNew, mOut, mOut2>>
parseVars == <<pPc, pContent, pRelativeTo, pResult>>
pureVars == <<mergeVars, parseVars>>
pointerVars == <<editingReminder, detailReminder, pendingDelete>>
idleVars == <<editingReminder, detailReminder, pendingDelete, budget>>
saveVars == <<stateFile, saves>>
tuiVars == <<pc, reminders, fileReminders, startIdx, now, compactIndex, mode,
             inputError, editingReminder, detailReminder, pendingDelete, budget,
             lastEvent>>
watchVars == <<channels, goroutines, applied>>
loopVars == <<tuiVars, saveVars, watchVars>>
vars == <<mPc, mExisting, mFile, mNew, mOut, mOut2, pPc, pContent, pRelativeTo,
          pResult, pc, reminders, fileReminders, startIdx, now, compactIndex, mode,
          inputError, editingReminder, detailReminder, pendingDelete, budget,
          lastEvent, stateFile, saves, channels, goroutines, applied>>

\* ------------------------------------------------- *reminder.Reminder
\* A pointer field of the Model: nil, the reminder at a place of the
\* collection, or a reminder that is no longer in the collection.
Nil == [at |-> 0, obj |-> <<>>]
PointerTo(i) == [at |-> i, obj |-> <<>>]
Detached(r) == [at |-> 0, obj |-> <<[r EXCEPT !.id = 0]>>]
\* The reminder p points to, p not nil.
Deref(p, rs) == IF p.at # 0 THEN rs[p.at] ELSE p.obj[1]
\* The collection and the pointer after the reminder p points to became r.
StoreSeq(p, rs, r) == IF p.at # 0 THEN [rs EXCEPT ![p.at] = r] ELSE rs
StorePtr(p, r) == IF p.at # 0 THEN p ELSE Detached(r)
\* The pointer p into the collection old, once the collection is t: the place
\* of the same allocation in t, or the reminder alone when t dropped it.
Retarget(p, old, t) ==
    IF p.at = 0 THEN p
    ELSE LET js == {j \in 1..Len(t) : t[j].id = old[p.at].id}
         IN IF js = {} THEN Detached(old[p.at])
            ELSE PointerTo(CHOOSE j \in js : TRUE)

\* Update handles one more message: the run has budget left for it.
Unbounded == 0 - 1
Handled ==
    /\ budget # 0
    /\ budget' = IF budget > 0 THEN budget - 1 ELSE budget

NoEvent == [kind |-> "none", file |-> "", descs |-> {}, at |-> 0, was |-> ""]

\* The state file is not followed: Model.saveState only starts a goroutine,
\* which reads the collection and writes the file, and the running program
\* never reads the file back.
SavesOff ==
    /\ stateFile = NoFile
    /\ saves = <<>>
NoSave == UNCHANGED saveVars

\* Neither are the watcher and the commands of the program: there a file
\* update and a tick are messages that can arrive at any time.
NoChannels == [Events |-> <<>>, tuiEvents |-> <<>>, closed |-> {}]
NoGoroutines ==
    [run |-> "off", runHand |-> <<>>, fwd |-> "off", fwdHand |-> <<>>,
     waits |-> 0, held |-> <<>>, ticks |-> 0, panicked |-> FALSE,
     taken |-> 0, failed |-> {}, late |-> {}, scanFailed |-> {}]
WatchOff ==
    /\ channels = NoChannels
    /\ goroutines = NoGoroutines
    /\ applied = <<>>
NoWatch == UNCHANGED watchVars

TuiOff ==
    /\ pc = "off"
    /\ reminders = <<>>
    /\ fileReminders = <<>>
    /\ startIdx = 0
    /\ now = 0
    /\ compactIndex = 0
    /\ mode = "normal"
    /\ inputError = ""
    /\ editingReminder = Nil
    /\ detailReminder = Nil
    /\ pendingDelete = FALSE
    /\ budget = 0
    /\ lastEvent = NoEvent
LoopOff == TuiOff /\ SavesOff /\ WatchOff

MergeOff ==
    /\ mPc = "off"
    /\ mExisting = <<>>
    /\ mFile = ""
    /\ mNew = <<>>
    /\ mOut = <<>>
    /\ mOut2 = <<>>

ParseOff ==
    /\ pPc = "off"
    /\ pContent = <<>>
    /\ pRelativeTo = 0
    /\ pResult = NotParsed

\* --------------------------------------------- the inputs of SpecMerge
\* What a parse attaches to a description: when, tags and line number.
Payloads ==
    {[when |-> 1, tags |-> <<>>, line |-> 1],
     [when |-> 2, tags |-> <<"work">>, line |-> 2]}
OldPayload == [when |-> 1, tags |-> <<>>, line |-> 1]

\* Sequences over S of length at most n.
SeqsUpTo(S, n) == UNION {[1..k -> S] : k \in 0..n}

\* The reminders known before the merge: any status, of the merged document
\* or not.  The identity of the i-th is i.
ExistingShapes ==
    [Description : Descriptions, SourceFile : {"f1.md", TUIOrigin}, Status : Status]
ExistingInputs ==
    {[i \in 1..Len(sh) |->
        Reminder(i, OldPayload.when, sh[i].Description, OldPayload.tags,
                 sh[i].SourceFile, OldPayload.line, sh[i].Status)] :
     sh \in SeqsUpTo(ExistingShapes, MaxExisting)}

\* A fresh parse of document f, as parser.ParseFile returns it: every entry
\* Pending with SourceFile f, allocated after the existing ones.
FreshShapes == [Description : Descriptions, payload : Payloads]
FreshInputs(f, firstId) ==
    {[i \in 1..Len(sh) |->
        Reminder(firstId + i - 1, sh[i].payload.when, sh[i].Description,
                 sh[i].payload.tags, f, sh[i].payload.line, Pending)] :
     sh \in SeqsUpTo(FreshShapes, MaxFresh)}

InitMerge ==
    /\ mPc = "input"
    /\ mExisting \in ExistingInputs
    /\ mFile \in Files
    /\ mNew \in FreshInputs(mFile, Len(mExisting) + 1)
    /\ mOut = <<>>
    /\ mOut2 = <<>>
    /\ ParseOff
    /\ LoopOff

\* MergeFromFile on the drawn inputs.
MergeOnce ==
    /\ mPc = "input"
    /\ mOut' = MergeFromFile(mExisting, mFile, mNew)
    /\ mPc' = "merged"
    /\ UNCHANGED <<mExisting, mFile, mNew, mOut2>>
    /\ UNCHANGED <<parseVars, loopVars>>

\* MergeFromFile on its own output, with the same document and parse.
MergeAgain ==
    /\ mPc = "merged"
    /\ mOut2' = MergeFromFile(mOut, mFile, mNew)
    /\ mPc' = "remerged"
    /\ UNCHANGED <<mExisting, mFile, mNew, mOut>>
    /\ UNCHANGED <<parseVars, loopVars>>

NextMerge == MergeOnce \/ MergeAgain

SpecMerge == InitMerge /\ [][NextMerge]_vars

\* ------------------------------------------------- main: startup merge
\* Instants a parse can resolve a phrase to: before, at or after the clock.
FreshTimes == 0..MaxTime

\* What state.Store.Load returns: the saved reminders in the order of the
\* saved collection (sorted by DateTime), without line numbers; the tags,
\* which neither the merge nor the loop looks at, are left empty.
SavedShapes ==
    [DateTime : FreshTimes, Description : Descriptions,
     SourceFile : Files \cup {TUIOrigin}, Status : Status]
SavedStates ==
    {t \in {[i \in 1..Len(sh) |->
                Reminder(i, sh[i].DateTime, sh[i].Description, <<>>,
                         sh[i].SourceFile, 0, sh[i].Status)] :
            sh \in SeqsUpTo(SavedShapes, MaxSaved)} :
        IsSortedByDateTime(t)}

\* What parser.ParseFile returns for document f, one marker per line and no
\* tags: Pending reminders of f, allocated with the identities ids.
ParseShapes == [DateTime : FreshTimes, Description : Descriptions]
ParseInputs == SeqsUpTo(ParseShapes, MaxFresh)
ParseFile(f, sh, ids) ==
    [i \in 1..Len(sh) |->
        Reminder(ids[i], sh[i].DateTime, sh[i].Description, <<>>, f, i, Pending)]

\* What watcher.ParseInitial returns for the watched file.
ParseInitial(used) ==
    {ParseFile(f, sh, FreshIds(used, Len(sh), 1)) :
     f \in WatchedFiles, sh \in ParseInputs}

Init ==
    /\ MergeOff
    /\ ParseOff
    /\ SavesOff
    /\ WatchOff
    /\ pc = "merge"
    /\ reminders \in SavedStates
    /\ fileReminders \in ParseInitial(Ids(reminders))
    /\ Len(reminders) + Len(fileReminders) <= MaxReminders
    /\ startIdx = 1
    /\ now = 0
    /\ compactIndex = 0
    /\ mode = "normal"
    /\ inputError = ""
    /\ editingReminder = Nil
    /\ detailReminder = Nil
    /\ pendingDelete = FALSE
    /\ budget = MaxLoop
    /\ lastEvent = NoEvent

\* One iteration of main's loop "for _, fr := range fileReminders".
StartupMergeStep ==
    /\ pc = "merge"
    /\ startIdx <= Len(fileReminders)
    /\ LET fr == fileReminders[startIdx]
       IN reminders' = MergeFromFile(reminders, fr.SourceFile, <<fr>>)
    /\ startIdx' = startIdx + 1
    /\ UNCHANGED <<pc, fileReminders, now, compactIndex, mode, inputError, lastEvent>>
    /\ UNCHANGED idleVars
    /\ UNCHANGED pureVars

\* The end of main: SortByDateTime, tui.New and the start of the program.
StartupRun ==
    /\ pc = "merge"
    /\ startIdx > Len(fileReminders)
    /\ reminders' \in Sorted(reminders)
    /\ pc' = "run"
    /\ fileReminders' = <<>>
    /\ startIdx' = 0
    /\ UNCHANGED <<now, compactIndex, mode, inputError, lastEvent>>
    /\ UNCHANGED idleVars
    /\ UNCHANGED pureVars

\* ----------------------------------------------------------- event loop
\* Time passes.
AdvanceClock ==
    /\ pc = "run"
    /\ now < MaxTime
    /\ now' = now + 1
    /\ UNCHANGED <<pc, reminders, fileReminders, startIdx, compactIndex, mode,
                   inputError, lastEvent>>
    /\ UNCHANGED idleVars
    /\ UNCHANGED pureVars

\* Model.Update, case TickMsg, in any mode.  The clock may advance once while
\* the loop runs: the first k reminders see now, the others t2.
Tick ==
    /\ pc = "run"
    /\ Handled
    /\ \E t2 \in {now, now + 1} : \E k \in 0..Len(reminders) :
        /\ t2 <= MaxTime
        /\ t2 = now => k = Len(reminders)
        /\ reminders' = TickScan(reminders, now, k, t2)
        /\ now' = t2
    /\ lastEvent' = [kind |-> "Tick", file |-> "", descs |-> {}, at |-> now,
                     was |-> ""]
    /\ UNCHANGED <<pc, fileReminders, startIdx, compactIndex, mode, inputError>>
    /\ UNCHANGED pointerVars
    /\ UNCHANGED pureVars

\* The message the watcher sends for document f when its parse is sh.
FileUpdateMsg(f, sh) ==
    [FilePath |-> f,
     Reminders |-> ParseFile(f, sh, FreshIds(Ids(reminders), Len(sh), 1))]

\* Model.Update, case FileUpdateMsg, in any mode.
HandleFileUpdate(msg) ==
    /\ pc = "run"
    /\ Handled
    /\ LET merged == MergeFromFile(reminders, msg.FilePath, msg.Reminders)
       IN /\ Len(merged) <= MaxReminders
          /\ \E t \in SortByDateTime(merged) :
                /\ reminders' = Renumber(t)
                /\ editingReminder' = Retarget(editingReminder, reminders, t)
                /\ detailReminder' = Retarget(detailReminder, reminders, t)
    /\ lastEvent' = [kind |-> "FileUpdate", file |-> msg.FilePath,
                     descs |-> NewByDesc(msg.Reminders), at |-> 0, was |-> ""]
    /\ UNCHANGED <<pc, fileReminders, startIdx, now, compactIndex, mode, inputError,
                   pendingDelete>>
    /\ UNCHANGED pureVars

FileUpdate ==
    \E f \in WatchedFiles : \E sh \in ParseInputs : HandleFileUpdate(FileUpdateMsg(f, sh))

\* Model.selectedReminder in the compact layout with sorting and no filter:
\* the position of the selected reminder, 0 for nil.
selectedReminder ==
    IF compactIndex >= 0 /\ compactIndex < Len(reminders) THEN compactIndex + 1 ELSE 0

\* What lastEvent records of a key that changed a reminder or the collection:
\* which action it was and the status its reminder had before.  A key that
\* changed none records KeyEvent.
Event(kind, was) == [kind |-> kind, file |-> "", descs |-> {}, at |-> 0, was |-> was]
KeyEvent == Event("Key", "")
EventAt(kind, i, acted) == IF acted THEN Event(kind, reminders[i].Status) ELSE KeyEvent
\* A delete also records the origin and the description of the reminder
\* that left the collection.
DeleteEvent(i, acted) ==
    IF acted
    THEN [kind |-> "Delete", file |-> reminders[i].SourceFile,
          descs |-> {reminders[i].Description}, at |-> 0,
          was |-> reminders[i].Status]
    ELSE KeyEvent
\* The same for a key on the reminder p points to; at is then the place of the
\* reminder in the collection, 0 when it is no longer in it.
EventOf(kind, p, acted) ==
    IF acted
    THEN [kind |-> kind, file |-> "", descs |-> {}, at |-> p.at,
          was |-> Deref(p, reminders).Status]
    ELSE KeyEvent

\* updateNormalMode, keys.Up and keys.Down.
KeyUp ==
    /\ pc = "run" /\ mode = "normal"
    /\ Handled
    /\ compactIndex' = IF compactIndex > 0 THEN compactIndex - 1 ELSE compactIndex
    /\ pendingDelete' = FALSE
    /\ lastEvent' = KeyEvent
    /\ UNCHANGED <<pc, reminders, fileReminders, startIdx, now, mode, inputError,
                   editingReminder, detailReminder>>
    /\ UNCHANGED pureVars

KeyDown ==
    /\ pc = "run" /\ mode = "normal"
    /\ Handled
    /\ LET maxIdx == IF Len(reminders) - 1 < 0 THEN 0 ELSE Len(reminders) - 1
       IN compactIndex' = IF compactIndex < maxIdx THEN compactIndex + 1 ELSE compactIndex
    /\ pendingDelete' = FALSE
    /\ lastEvent' = KeyEvent
    /\ UNCHANGED <<pc, reminders, fileReminders, startIdx, now, mode, inputError,
                   editingReminder, detailReminder>>
    /\ UNCHANGED pureVars

\* Faulty variant of acknowledge: a Pending reminder is left as it is.
acknowledgeOnlyTriggered(r) ==
    IF r.Status = Triggered THEN [r EXCEPT !.Status = Acknowledged] ELSE r

\* The body of the acknowledge key on the reminder r, in updateNormalMode and
\* in updateDetailMode.
acknowledge(r) ==
    IF r.Status = Pending \/ r.Status = Triggered
    THEN [r EXCEPT !.Status = Acknowledged]
    ELSE r

\* Faulty variant of unacknowledge: the reminder always becomes Pending.
unacknowledgeToPending(r, t) ==
    IF r.Status = Acknowledged THEN [r EXCEPT !.Status = Pending] ELSE r

\* The body of the unacknowledge key on the reminder r, the clock being t.
unacknowledge(r, t) ==
    IF r.Status = Acknowledged
    THEN [r EXCEPT !.Status = IF IsDue(r, t) THEN Triggered ELSE Pending]
    ELSE r

\* updateNormalMode, keys.Acknowledge.
KeyAcknowledge ==
    /\ pc = "run" /\ mode = "normal"
    /\ Handled
    /\ LET i == selectedReminder
       IN reminders' =
            IF i # 0 THEN [reminders EXCEPT ![i] = acknowledge(reminders[i])]
            ELSE reminders
    /\ pendingDelete' = FALSE
    /\ lastEvent' = EventAt("Acknowledge", selectedReminder, reminders' # reminders)
    /\ UNCHANGED <<pc, fileReminders, startIdx, now, compactIndex, mode, inputError,
                   editingReminder, detailReminder>>
    /\ UNCHANGED pureVars

\* updateNormalMode, keys.Unacknowledge.
KeyUnacknowledge ==
    /\ pc = "run" /\ mode = "normal"
    /\ Handled
    /\ LET i == selectedReminder
       IN reminders' =
            IF i # 0 THEN [reminders EXCEPT ![i] = unacknowledge(reminders[i], now)]
            ELSE reminders
    /\ pendingDelete' = FALSE
    /\ lastEvent' = EventAt("Unacknowledge", selectedReminder, reminders' # reminders)
    /\ UNCHANGED <<pc, fileReminders, startIdx, now, compactIndex, mode, inputError,
                   editingReminder, detailReminder>>
    /\ UNCHANGED pureVars

\* The offsets of keys.Snooze5m, Snooze1h and Snooze1d, in units of 5 minutes.
Snooze5m == 1
Snooze1h == 12
Snooze1d == 288
Durations == {Snooze5m, Snooze1h, Snooze1d}

\* Model.snooze(duration), from updateNormalMode.
snooze(duration) ==
    /\ pc = "run" /\ mode = "normal"
    /\ Handled
    /\ LET i == selectedReminder
       IN IF i = 0 \/ reminders[i].Status # Triggered
          THEN UNCHANGED <<reminders, editingReminder, detailReminder>>
          ELSE LET rs == [reminders EXCEPT ![i].DateTime = now + duration,
                                           ![i].Status = Pending]
               IN \E t \in SortByDateTime(rs) :
                    /\ reminders' = Renumber(t)
                    /\ editingReminder' = Retarget(editingReminder, rs, t)
                    /\ detailReminder' = Retarget(detailReminder, rs, t)
    /\ pendingDelete' = FALSE
    /\ lastEvent' = EventAt("Snooze", selectedReminder,
                             selectedReminder # 0
                                /\ reminders[selectedReminder].Status = Triggered)
    /\ UNCHANGED <<pc, fileReminders, startIdx, now, compactIndex, mode, inputError>>
    /\ UNCHANGED pureVars

\* updateNormalMode, keys.Snooze5m, keys.Snooze1h and keys.Snooze1d.
KeySnooze == \E duration \in Durations : snooze(duration)

\* updateNormalMode, keys.Add: open the add input.
KeyAdd ==
    /\ pc = "run" /\ mode = "normal"
    /\ Handled
    /\ mode' = "add"
    /\ inputError' = ""
    /\ editingReminder' = Nil
    /\ pendingDelete' = FALSE
    /\ lastEvent' = KeyEvent
    /\ UNCHANGED <<pc, reminders, fileReminders, startIdx, now, compactIndex,
                   detailReminder>>
    /\ UNCHANGED pureVars

\* The texts submitted in the add input, as their words: empty, one word, no
\* datetime, and a date and time followed by a description.
AddInputs ==
    {<<>>, <<"a">>, <<"a", "b">>}
        \cup {<<d, c, w>> : d \in DateWords, c \in ClockWords, w \in PlainWords}
\* The texts submitted when a reminder is edited: also a relative time and a
\* tag.
EditInputs == AddInputs \cup {<<"+5m", "a", "#work">>}

\* Faulty variant of InputError: a text without a datetime is accepted.
InputErrorAcceptsUnparsed(words, relativeTo) ==
    IF words = <<>> THEN "empty input"
    ELSE IF Len(words) < 2 THEN "need both time and description"
    ELSE ""

\* The error addReminder and updateReminder return for the text, "" for nil.
InputError(words, relativeTo) ==
    IF words = <<>> THEN "empty input"
    ELSE IF Len(words) < 2 THEN "need both time and description"
    ELSE IF ~TryPrefixes(words, relativeTo, Len(words) - 1).ok
         THEN "couldn't parse time from input"
    ELSE ""

\* updateAddMode, Enter with no reminder being edited: Model.addReminder on
\* the typed text.  Either some word prefix resolves, to parsedTime, and the
\* rest is the description, or addReminder returns an error.
addEnter(input) ==
    /\ pc = "run" /\ mode = "add" /\ editingReminder = Nil
    /\ Handled
    /\ LET err == InputError(input, now)
           parsed == TryPrefixes(input, now, Len(input) - 1)
       IN \/ /\ err = ""
              /\ Len(reminders) < MaxReminders
              /\ LET r == Reminder(FreshIds(Ids(reminders), 1, 1)[1], parsed.DateTime,
                                   parsed.Description, parsed.Tags, TUIOrigin, 0,
                                   Pending)
                 IN \E t \in SortByDateTime(Append(reminders, r)) :
                        /\ reminders' = Renumber(t)
                        /\ detailReminder' = Retarget(detailReminder, reminders, t)
              /\ mode' = "normal"
              /\ inputError' = ""
              /\ lastEvent' = Event("Add", "")
           \/ /\ err # ""
              /\ inputError' = err
              /\ lastEvent' = KeyEvent
              /\ UNCHANGED <<reminders, mode, detailReminder>>
    /\ UNCHANGED <<pc, fileReminders, startIdx, now, compactIndex, editingReminder,
                   pendingDelete>>
    /\ UNCHANGED pureVars

AddEnter == \E input \in AddInputs : addEnter(input)

\* updateAddMode, Escape.
AddEscape ==
    /\ pc = "run" /\ mode = "add"
    /\ Handled
    /\ mode' = "normal"
    /\ inputError' = ""
    /\ editingReminder' = Nil
    /\ lastEvent' = EventOf("Escape", editingReminder, editingReminder # Nil)
    /\ UNCHANGED <<pc, reminders, fileReminders, startIdx, now, compactIndex,
                   detailReminder, pendingDelete>>
    /\ UNCHANGED pureVars

Next ==
    \/ StartupMergeStep /\ NoSave /\ NoWatch
    \/ StartupRun /\ NoSave /\ NoWatch
    \/ AdvanceClock /\ NoSave /\ NoWatch
    \/ Tick /\ NoSave /\ NoWatch
    \/ FileUpdate /\ NoSave /\ NoWatch
    \/ KeyUp /\ NoSave /\ NoWatch
    \/ KeyDown /\ NoSave /\ NoWatch
    \/ KeyAcknowledge /\ NoSave /\ NoWatch
    \/ KeyUnacknowledge /\ NoSave /\ NoWatch
    \/ KeySnooze /\ NoSave /\ NoWatch
    \/ KeyAdd /\ NoSave /\ NoWatch
    \/ AddEnter /\ NoSave /\ NoWatch
    \/ AddEscape /\ NoSave /\ NoWatch

Spec == Init /\ [][Next]_vars

\* ------------------------------------------- event loop: delete, edit, detail
\* The collection without its i-th reminder:
\* append(m.reminders[:i], m.reminders[i+1:]...)
RemoveAt(rs, i) == SubSeq(rs, 1, i - 1) \o SubSeq(rs, i + 1, Len(rs))

\* Model.deleteCurrentReminder: the selected reminder leaves the collection;
\* the order of the others is kept.
deleteCurrentReminder ==
    LET i == selectedReminder
    IN IF i = 0
       THEN UNCHANGED <<reminders, editingReminder>>
       ELSE LET t == RemoveAt(reminders, i)
            IN /\ reminders' = Renumber(t)
               /\ editingReminder' = Retarget(editingReminder, reminders, t)

\* updateNormalMode, "d": the second of two consecutive "d" deletes.
KeyDelete ==
    /\ pc = "run" /\ mode = "normal"
    /\ Handled
    /\ IF pendingDelete
       THEN /\ deleteCurrentReminder
            /\ detailReminder' = detailReminder
            /\ pendingDelete' = FALSE
            /\ lastEvent' = DeleteEvent(selectedReminder, selectedReminder # 0)
       ELSE /\ pendingDelete' = TRUE
            /\ lastEvent' = KeyEvent
            /\ UNCHANGED <<reminders, editingReminder, detailReminder>>
    /\ UNCHANGED <<pc, fileReminders, startIdx, now, compactIndex, mode, inputError>>
    /\ UNCHANGED pureVars

\* updateNormalMode, keys.Edit: open the input on the selected reminder.
KeyEdit ==
    /\ pc = "run" /\ mode = "normal"
    /\ Handled
    /\ IF selectedReminder = 0
       THEN UNCHANGED <<mode, editingReminder, inputError>>
       ELSE /\ mode' = "add"
            /\ editingReminder' = PointerTo(selectedReminder)
            /\ inputError' = ""
    /\ pendingDelete' = FALSE
    /\ lastEvent' = KeyEvent
    /\ UNCHANGED <<pc, reminders, fileReminders, startIdx, now, compactIndex,
                   detailReminder>>
    /\ UNCHANGED pureVars

\* Faulty variant of editStatus: an acknowledged reminder with a past time
\* becomes Triggered.
editStatusForgetsAcknowledged(status, parsedTime, t) ==
    IF t > parsedTime THEN Triggered
    ELSE IF status = Triggered THEN Pending ELSE status

\* Faulty variant of editStatus: a Triggered reminder with a time that is not
\* past stays Triggered.
editStatusKeepsTriggered(status, parsedTime, t) ==
    IF t > parsedTime
    THEN IF status # Acknowledged THEN Triggered ELSE status
    ELSE status

\* updateReminder, "Update status based on new time": the status after the
\* edit, t being the clock (now.After(parsedTime)).
editStatus(status, parsedTime, t) ==
    IF t > parsedTime
    THEN IF status # Acknowledged THEN Triggered ELSE status
    ELSE IF status = Triggered THEN Pending ELSE status

\* Faulty variant of updateReminder: the tags are left as they were.
updateReminderKeepsTags(r, parsed, t) ==
    [r EXCEPT !.DateTime = parsed.DateTime,
              !.Description = parsed.Description,
              !.Status = editStatus(r.Status, parsed.DateTime, t)]

\* Model.updateReminder on a text that parsed: the reminder r after the edit.
updateReminder(r, parsed, t) ==
    [r EXCEPT !.DateTime = parsed.DateTime,
              !.Description = parsed.Description,
              !.Tags = parsed.Tags,
              !.Status = editStatus(r.Status, parsed.DateTime, t)]

\* updateAddMode, Enter with a reminder being edited: Model.updateReminder on
\* the typed text.
editEnter(input) ==
    /\ pc = "run" /\ mode = "add" /\ editingReminder # Nil
    /\ Handled
    /\ LET err == InputError(input, now)
           parsed == TryPrefixes(input, now, Len(input) - 1)
           r == updateReminder(Deref(editingReminder, reminders), parsed, now)
           rs == StoreSeq(editingReminder, reminders, r)
       IN \/ /\ err = ""
              /\ \E t \in SortByDateTime(rs) :
                    /\ reminders' = Renumber(t)
                    /\ detailReminder' = Retarget(detailReminder, rs, t)
              /\ mode' = "normal"
              /\ inputError' = ""
              /\ editingReminder' = Nil
              /\ lastEvent' = EventOf("Edit", editingReminder, TRUE)
           \/ /\ err # ""
              /\ inputError' = err
              /\ lastEvent' = KeyEvent
              /\ UNCHANGED <<reminders, mode, editingReminder, detailReminder>>
    /\ UNCHANGED <<pc, fileReminders, startIdx, now, compactIndex, pendingDelete>>
    /\ UNCHANGED pureVars

EditEnter == \E input \in EditInputs : editEnter(input)

\* updateNormalMode, "K": open the detail view on the selected reminder.
KeyDetail ==
    /\ pc = "run" /\ mode = "normal"
    /\ Handled
    /\ IF selectedReminder = 0
       THEN UNCHANGED <<mode, detailReminder>>
       ELSE /\ mode' = "detail"
            /\ detailReminder' = PointerTo(selectedReminder)
    /\ pendingDelete' = FALSE
    /\ lastEvent' = KeyEvent
    /\ UNCHANGED <<pc, reminders, fileReminders, startIdx, now, compactIndex,
                   inputError, editingReminder>>
    /\ UNCHANGED pureVars

\* updateDetailMode, "d": the second of two consecutive "d" calls
\* deleteCurrentReminder and closes the view.
DetailDelete ==
    /\ pc = "run" /\ mode = "detail"
    /\ Handled
    /\ IF pendingDelete
       THEN /\ IF detailReminder # Nil
               THEN deleteCurrentReminder
               ELSE UNCHANGED <<reminders, editingReminder>>
            /\ pendingDelete' = FALSE
            /\ mode' = "normal"
            /\ detailReminder' = Nil
            /\ lastEvent' = DeleteEvent(selectedReminder,
                                         detailReminder # Nil /\ selectedReminder # 0)
       ELSE /\ pendingDelete' = TRUE
            /\ lastEvent' = KeyEvent
            /\ UNCHANGED <<reminders, mode, editingReminder, detailReminder>>
    /\ UNCHANGED <<pc, fileReminders, startIdx, now, compactIndex, inputError>>
    /\ UNCHANGED pureVars

\* updateDetailMode, Escape.
DetailEscape ==
    /\ pc = "run" /\ mode = "detail"
    /\ Handled
    /\ pendingDelete' = FALSE
    /\ mode' = "normal"
    /\ detailReminder' = Nil
    /\ lastEvent' = KeyEvent
    /\ UNCHANGED <<pc, reminders, fileReminders, startIdx, now, compactIndex,
                   inputError, editingReminder>>
    /\ UNCHANGED pureVars

\* updateDetailMode, Enter or Space: acknowledge the reminder shown.
DetailAcknowledge ==
    /\ pc = "run" /\ mode = "detail"
    /\ Handled
    /\ IF detailReminder = Nil
       THEN UNCHANGED <<reminders, detailReminder>>
       ELSE LET r == acknowledge(Deref(detailReminder, reminders))
            IN /\ reminders' = StoreSeq(detailReminder, reminders, r)
               /\ detailReminder' = StorePtr(detailReminder, r)
    /\ pendingDelete' = FALSE
    /\ lastEvent' = EventOf("Acknowledge", detailReminder,
                            detailReminder # Nil
                                /\ Deref(detailReminder, reminders).Status # Acknowledged)
    /\ UNCHANGED <<pc, fileReminders, startIdx, now, compactIndex, mode, inputError,
                   editingReminder>>
    /\ UNCHANGED pureVars

\* updateDetailMode, "u": unacknowledge the reminder shown.
DetailUnacknowledge ==
    /\ pc = "run" /\ mode = "detail"
    /\ Handled
    /\ IF detailReminder = Nil
       THEN UNCHANGED <<reminders, detailReminder>>
       ELSE LET r == unacknowledge(Deref(detailReminder, reminders), now)
            IN /\ reminders' = StoreSeq(detailReminder, reminders, r)
               /\ detailReminder' = StorePtr(detailReminder, r)
    /\ pendingDelete' = FALSE
    /\ lastEvent' = EventOf("Unacknowledge", detailReminder,
                            detailReminder # Nil
                                /\ Deref(detailReminder, reminders).Status = Acknowledged)
    /\ UNCHANGED <<pc, fileReminders, startIdx, now, compactIndex, mode, inputError,
                   editingReminder>>
    /\ UNCHANGED pureVars

\* reminder.Snoozeable
Snoozeable(r) == r.Status # Acknowledged

\* updateDetailMode, "1", "2" and "3" with the offset duration: the reminder
\* shown moves by duration from its own DateTime.  Only a reminder whose
\* DateTime is within the clock's range is snoozed, which bounds DateTime.
detailSnooze(duration) ==
    /\ pc = "run" /\ mode = "detail"
    /\ Handled
    /\ IF detailReminder = Nil \/ ~Snoozeable(Deref(detailReminder, reminders))
       THEN UNCHANGED <<reminders, detailReminder>>
       ELSE LET old == Deref(detailReminder, reminders)
                r == [old EXCEPT !.DateTime = old.DateTime + duration,
                                 !.Status = Pending]
                rs == StoreSeq(detailReminder, reminders, r)
            IN /\ old.DateTime <= MaxTime
               /\ \E t \in SortByDateTime(rs) :
                    /\ reminders' = Renumber(t)
                    /\ detailReminder' = Retarget(StorePtr(detailReminder, r), rs, t)
    /\ pendingDelete' = FALSE
    /\ lastEvent' = EventOf("Snooze", detailReminder,
                            detailReminder # Nil
                                /\ Snoozeable(Deref(detailReminder, reminders)))
    /\ UNCHANGED <<pc, fileReminders, startIdx, now, compactIndex, mode, inputError,
                   editingReminder>>
    /\ UNCHANGED pureVars

DetailSnooze == \E duration \in Durations : detailSnooze(duration)

\* updateDetailMode, "e": edit the reminder shown.
DetailEdit ==
    /\ pc = "run" /\ mode = "detail"
    /\ Handled
    /\ IF detailReminder = Nil
       THEN UNCHANGED <<mode, editingReminder, detailReminder, inputError>>
       ELSE /\ mode' = "add"
            /\ editingReminder' = detailReminder
            /\ inputError' = ""
            /\ detailReminder' = Nil
    /\ pendingDelete' = FALSE
    /\ lastEvent' = KeyEvent
    /\ UNCHANGED <<pc, reminders, fileReminders, startIdx, now, compactIndex>>
    /\ UNCHANGED pureVars

\* What tui.New receives from main: a collection sorted by DateTime, each
\* reminder as state.Store.Load returns it.
StartShapes ==
    [DateTime : FreshTimes, Description : Descriptions,
     SourceFile : WatchedFiles \cup {TUIOrigin}, Status : Status]
StartStates ==
    {t \in {[i \in 1..Len(sh) |->
                Reminder(i, sh[i].DateTime, sh[i].Description, <<>>,
                         sh[i].SourceFile, 0, sh[i].Status)] :
            sh \in SeqsUpTo(StartShapes, MaxReminders)} :
        IsSortedByDateTime(t)}

InitTUI ==
    /\ MergeOff
    /\ ParseOff
    /\ SavesOff
    /\ WatchOff
    /\ pc = "run"
    /\ reminders \in StartStates
    /\ fileReminders = <<>>
    /\ startIdx = 0
    /\ now \in FreshTimes
    /\ \A i \in 1..Len(reminders) :
            reminders[i].Status = Triggered => IsDue(reminders[i], now)
    /\ compactIndex = 0
    /\ mode = "normal"
    /\ inputError = ""
    /\ editingReminder = Nil
    /\ detailReminder = Nil
    /\ pendingDelete = FALSE
    /\ budget = MaxEvents
    /\ lastEvent = NoEvent

NextTUI ==
    \/ AdvanceClock /\ NoSave /\ NoWatch
    \/ Tick /\ NoSave /\ NoWatch
    \/ FileUpdate /\ NoSave /\ NoWatch
    \/ KeyUp /\ NoSave /\ NoWatch
    \/ KeyDown /\ NoSave /\ NoWatch
    \/ KeyAcknowledge /\ NoSave /\ NoWatch
    \/ KeyUnacknowledge /\ NoSave /\ NoWatch
    \/ KeySnooze /\ NoSave /\ NoWatch
    \/ KeyAdd /\ NoSave /\ NoWatch
    \/ AddEnter /\ NoSave /\ NoWatch
    \/ AddEscape /\ NoSave /\ NoWatch
    \/ KeyDelete /\ NoSave /\ NoWatch
    \/ KeyEdit /\ NoSave /\ NoWatch
    \/ EditEnter /\ NoSave /\ NoWatch
    \/ KeyDetail /\ NoSave /\ NoWatch
    \/ DetailDelete /\ NoSave /\ NoWatch
    \/ DetailEscape /\ NoSave /\ NoWatch
    \/ DetailAcknowledge /\ NoSave /\ NoWatch
    \/ DetailUnacknowledge /\ NoSave /\ NoWatch
    \/ DetailSnooze /\ NoSave /\ NoWatch
    \/ DetailEdit /\ NoSave /\ NoWatch

SpecTUI == InitTUI /\ [][NextTUI]_vars

\* ------------------------------------------------------------ SpecParse
InitParse ==
    /\ MergeOff
    /\ LoopOff
    /\ pPc = "input"
    /\ pContent \in SeqsUpTo(Vocabulary, MaxWords)
    /\ pRelativeTo \in FreshTimes
    /\ pResult = NotParsed

\* parseReminderContent on the drawn content.
ParseContent ==
    /\ pPc = "input"
    /\ pResult' = parseReminderContent(pContent, pRelativeTo)
    /\ pPc' = "parsed"
    /\ UNCHANGED <<pContent, pRelativeTo>>
    /\ UNCHANGED <<mergeVars, loopVars>>

NextParse == ParseContent

SpecParse == InitParse /\ [][NextParse]_vars

\* --------------------------------------------------------- SpecRelative
\* The numbers the drawn phrases write: small ones, and the last number of
\* days whose nanoseconds an int64 holds, 106751, and the one after it.
Numbers == {1, 30, 90, 106751, 106752}
RelativeTokens ==
    {NumberToken(n) : n \in Numbers} \cup {CharToken(c) : c \in Units \cup {"x"}}
\* Two runs of digits that follow each other are one run.
RelativePhrases ==
    {t \in SeqsUpTo(RelativeTokens, MaxTokens) :
        \A i \in 1..(Len(t) - 1) : ~(t[i].digits /\ t[i + 1].digits)}

InitRelative ==
    /\ MergeOff
    /\ LoopOff
    /\ pPc = "relative"
    /\ pContent \in RelativePhrases
    /\ pRelativeTo \in FreshTimes
    /\ pResult = RelativeResult(FALSE, NoDuration)

\* datetime.Parse on the drawn phrase: pResult.plus is what the returned
\* time is after relativeTo.
ResolveRelative ==
    /\ pPc = "relative"
    /\ pResult' = ParseRelativeTokens(pContent)
    /\ pPc' = "relative resolved"
    /\ UNCHANGED <<pContent, pRelativeTo>>
    /\ UNCHANGED <<mergeVars, loopVars>>

NextRelative == ResolveRelative

SpecRelative == InitRelative /\ [][NextRelative]_vars

\* ---------------------------------------------------------- SpecResolve
\* The phrases handed to datetime.Parse: a weekday name or "tomorrow", alone
\* or followed by a time of day or by a word that is none.
DayWords == DOMAIN weekdays \cup DOMAIN Capitals \cup {"tomorrow"}
ClauseWords == {"10am", "15:05", "a"}
Phrases == {<<d>> : d \in DayWords} \cup {<<d, c>> : d \in DayWords, c \in ClauseWords}
\* The times of day of the reference instants, and the instants: each time
\* of day on each of the WeekDays days from Monday 2006-01-02 on.
ClockTimes ==
    {0, NineAM - 1, NineAM, NineAM + 1, 10 * HourUnits, DayUnits - 1}
ReferenceInstants ==
    {d * DayUnits + c - EpochOfDay : d \in 0..(WeekDays - 1), c \in ClockTimes}

InitResolve ==
    /\ MergeOff
    /\ LoopOff
    /\ pPc = "phrase"
    /\ pContent \in Phrases
    /\ pRelativeTo \in ReferenceInstants
    /\ pResult = Unresolved

\* datetime.Parse on the drawn phrase.
Resolve ==
    /\ pPc = "phrase"
    /\ pResult' = Parse(pContent, pRelativeTo)
    /\ pPc' = "resolved"
    /\ UNCHANGED <<pContent, pRelativeTo>>
    /\ UNCHANGED <<mergeVars, loopVars>>

NextResolve == Resolve

SpecResolve == InitResolve /\ [][NextResolve]_vars

\* ------------------------------------------------------------- SpecTags
NotExtracted == [cleanText |-> <<>>, tags |-> <<>>]

InitTags ==
    /\ MergeOff
    /\ LoopOff
    /\ pPc = "text"
    /\ pContent \in SeqsUpTo(Alphabet, MaxChars)
    /\ pRelativeTo = 0
    /\ pResult = [first |-> NotExtracted, second |-> NotExtracted]

\* ExtractTags on the drawn text.
ExtractOnce ==
    /\ pPc = "text"
    /\ pResult' = [pResult EXCEPT !.first = ExtractTagsText(pContent)]
    /\ pPc' = "extracted"
    /\ UNCHANGED <<pContent, pRelativeTo>>
    /\ UNCHANGED <<mergeVars, loopVars>>

\* ExtractTags on the clean text of the first call.
ExtractAgain ==
    /\ pPc = "extracted"
    /\ pResult' = [pResult EXCEPT !.second = ExtractTagsText(pResult.first.cleanText)]
    /\ pPc' = "extracted twice"
    /\ UNCHANGED <<pContent, pRelativeTo>>
    /\ UNCHANGED <<mergeVars, loopVars>>

NextTags == ExtractOnce \/ ExtractAgain

SpecTags == InitTags /\ [][NextTags]_vars

\* ------------------------------------------------------------- SpecScan
\* The contents of the markers of the drawn documents: no word, one word,
\* two words without a datetime, and contents with a datetime.
MarkerContents ==
    {<<>>, <<"a">>, <<"a", "b">>, <<"+5m", "a">>, <<"friday", "10am", "b">>,
     <<"+1h", "#work">>}
Documents == SeqsUpTo(SeqsUpTo(MarkerContents, MaxMarkers), MaxLines)

InitScan ==
    /\ MergeOff
    /\ LoopOff
    /\ pPc = "document"
    /\ pContent \in Documents
    /\ pRelativeTo \in FreshTimes
    /\ pResult = NotParsed

\* ParseFile on the drawn document.
ScanFile ==
    /\ pPc = "document"
    /\ pResult' = ParseFileLines("f1.md", pContent, pRelativeTo)
    /\ pPc' = "scanned"
    /\ UNCHANGED <<pContent, pRelativeTo>>
    /\ UNCHANGED <<mergeVars, loopVars>>

NextScan == ScanFile

SpecScan == InitScan /\ [][NextScan]_vars

\* ------------------------------------------------------------ SpecStore
\* The collections handed to Store.Save: ordered by time as the Model keeps
\* them, with instants before and after the epoch of the model and one in
\* the year 10219 (what "in 3000000 days" resolves to).
StoredTimes == {-200, 0, 7, YearTenThousand + 21000000}
StoredShapes ==
    [DateTime : StoredTimes, Description : Descriptions,
     Tags : {<<>>, <<"work">>}, SourceFile : {"f1.md", TUIOrigin}, Status : Status]
StoredCollections ==
    {rs \in {[i \in 1..Len(sh) |->
                 Reminder(i, sh[i].DateTime, sh[i].Description, sh[i].Tags,
                          sh[i].SourceFile, i, sh[i].Status)] :
             sh \in SeqsUpTo(StoredShapes, MaxStored)} :
        IsSortedByDateTime(rs)}
\* The state file of an earlier run.
EarlierFile ==
    FileOf(MarshalIndent(<<Reminder(1, 0, "b", <<>>, "f2.md", 3, Acknowledged)>>).data)
NotStored == [saveErr |-> FALSE, loaded |-> <<>>]

InitStore ==
    /\ MergeOff
    /\ TuiOff
    /\ pPc = "collection"
    /\ pContent \in StoredCollections
    /\ pRelativeTo = 0
    /\ pResult = NotStored
    /\ stateFile \in {NoFile, EarlierFile}
    /\ saves = <<>>
    /\ WatchOff

\* Store.Save on the drawn collection.
StoreSave ==
    /\ pPc = "collection"
    /\ stateFile' = Save(stateFile, pContent).file
    /\ pResult' = [pResult EXCEPT !.saveErr = Save(stateFile, pContent).err]
    /\ pPc' = "saved"
    /\ UNCHANGED <<pContent, pRelativeTo, saves>>
    /\ UNCHANGED <<mergeVars, tuiVars, watchVars>>

\* Store.Load of the next run.
StoreLoad ==
    /\ pPc = "saved"
    /\ pResult' = [pResult EXCEPT !.loaded = Load(stateFile)]
    /\ pPc' = "loaded"
    /\ UNCHANGED <<pContent, pRelativeTo>>
    /\ UNCHANGED <<mergeVars, loopVars>>

NextStore == StoreSave \/ StoreLoad

SpecStore == InitStore /\ [][NextStore]_vars

\* ------------------------------------------------------------- SpecSave
\* The event loop with the saves it starts.  The run begins where an
\* earlier run ended: the state file holds the collection Load returned.
SaveStarts ==
    {rs \in StartStates :
        /\ Len(rs) <= MaxStored
        /\ \A i \in 1..Len(rs) : rs[i].Description = "a" /\ rs[i].SourceFile = "f1.md"}

InitSave ==
    /\ MergeOff
    /\ ParseOff
    /\ pc = "run"
    /\ reminders \in SaveStarts
    /\ fileReminders = <<>>
    /\ startIdx = 0
    /\ now \in FreshTimes
    /\ \A i \in 1..Len(reminders) :
            reminders[i].Status = Triggered => IsDue(reminders[i], now)
    /\ compactIndex = 0
    /\ mode = "normal"
    /\ inputError = ""
    /\ editingReminder = Nil
    /\ detailReminder = Nil
    /\ pendingDelete = FALSE
    /\ budget = MaxSaves
    /\ lastEvent = NoEvent
    /\ stateFile = Save(NoFile, reminders).file
    /\ saves = <<>>
    /\ WatchOff

\* Model.saveState with a store: a goroutine is started and the handler goes
\* on; seen is the collection as the handler leaves it.  A handler that does
\* not reach its call of saveState starts none.
saveState(called) ==
    /\ saves' = IF called
                THEN Append(saves, [pc |-> "started", seen |-> reminders', data |-> <<>>])
                ELSE saves
    /\ stateFile' = stateFile

\* The goroutine of saveState, first half of Store.Save: m.reminders is read
\* without a lock, while later handlers sort the same slice and assign to
\* the same reminders, so what is marshalled is the collection the handler
\* left or the collection of this moment.
SaveMarshal ==
    /\ pc = "run"
    /\ \E g \in 1..Len(saves) : \E rs \in {saves[g].seen, reminders} :
        /\ saves[g].pc = "started"
        /\ saves' = IF MarshalIndent(rs).err
                    THEN RemoveAt(saves, g)
                    ELSE [saves EXCEPT ![g].pc = "marshalled",
                                       ![g].data = MarshalIndent(rs).data]
    /\ UNCHANGED <<stateFile, tuiVars>>
    /\ UNCHANGED pureVars

\* Second half of Store.Save: os.WriteFile, and the goroutine ends.
SaveWrite ==
    /\ pc = "run"
    /\ \E g \in 1..Len(saves) :
        /\ saves[g].pc = "marshalled"
        /\ stateFile' = FileOf(saves[g].data)
        /\ saves' = RemoveAt(saves, g)
    /\ UNCHANGED tuiVars
    /\ UNCHANGED pureVars

Acted == lastEvent'.kind # KeyEvent.kind

NextSave ==
    \/ AdvanceClock /\ NoSave /\ NoWatch
    \/ Tick /\ saveState(reminders' # reminders) /\ NoWatch
    \/ FileUpdate /\ saveState(TRUE) /\ NoWatch
    \/ KeyDown /\ NoSave /\ NoWatch
    \/ KeyAcknowledge /\ saveState(Acted) /\ NoWatch
    \/ KeyUnacknowledge /\ saveState(Acted) /\ NoWatch
    \/ KeySnooze /\ saveState(Acted) /\ NoWatch
    \/ KeyDelete /\ saveState(Acted) /\ NoWatch
    \/ KeyAdd /\ NoSave /\ NoWatch
    \/ AddEnter /\ saveState(Acted) /\ NoWatch
    \/ KeyEdit /\ NoSave /\ NoWatch
    \/ EditEnter /\ saveState(Acted) /\ NoWatch
    \/ SaveMarshal /\ NoWatch
    \/ SaveWrite /\ NoWatch

SpecSave == InitSave /\ [][NextSave]_vars

\* ----------------------------------------------------------- SpecDetail
\* The event loop around the detail view: the view is opened on a reminder
\* of a full collection of one document, which is then snoozed in the view,
\* re-parsed, deleted with "dd" or left.
DetailStarts ==
    {rs \in StartStates :
        /\ Len(rs) = MaxReminders
        /\ \A i \in 1..Len(rs) : rs[i].SourceFile = "f1.md"}

InitDetail ==
    /\ MergeOff
    /\ ParseOff
    /\ SavesOff
    /\ WatchOff
    /\ pc = "run"
    /\ reminders \in DetailStarts
    /\ fileReminders = <<>>
    /\ startIdx = 0
    /\ now \in FreshTimes
    /\ \A i \in 1..Len(reminders) :
            reminders[i].Status = Triggered => IsDue(reminders[i], now)
    /\ compactIndex = 0
    /\ mode = "normal"
    /\ inputError = ""
    /\ editingReminder = Nil
    /\ detailReminder = Nil
    /\ pendingDelete = FALSE
    /\ budget = MaxDetail
    /\ lastEvent = NoEvent

NextDetail ==
    \/ FileUpdate /\ NoSave /\ NoWatch
    \/ KeyDown /\ NoSave /\ NoWatch
    \/ KeyDetail /\ NoSave /\ NoWatch
    \/ DetailSnooze /\ NoSave /\ NoWatch
    \/ DetailDelete /\ NoSave /\ NoWatch
    \/ DetailEscape /\ NoSave /\ NoWatch

SpecDetail == InitDetail /\ [][NextDetail]_vars

\* ------------------------------------------------ watcher.Watcher and main
\* make(chan FileEvent, 10) and make(chan tui.FileUpdateMsg, 10).
EventsCap == 10
TuiEventsCap == 10

\* A FileEvent; n is the serial number of the file system event it answers.
\* Reminders is the parse as ParseInputs has it: the reminders are allocated
\* when the message is handled.
FileEvent(f, sh, err, n) == [FilePath |-> f, Reminders |-> sh, Err |-> err, n |-> n]

\* The parses of a document in the runs with the watcher.
WatchParses ==
    {<<>>} \cup {<<[DateTime |-> MaxTime, Description |-> d]>> : d \in Descriptions}

\* A step of a goroutine leaves the Model, the state file and the clock alone.
Background ==
    /\ UNCHANGED <<tuiVars, saveVars, applied>>
    /\ UNCHANGED pureVars

\* Watcher.run, select: a write or create event of a markdown document.
WatcherSelect ==
    /\ goroutines.run = "select"
    /\ "fsWatcher" \notin channels.closed
    /\ goroutines.taken < MaxFileEvents
    /\ \E f \in Files :
        goroutines' = [goroutines EXCEPT
                          !.run = "parse",
                          !.runHand = <<FileEvent(f, <<>>, FALSE, goroutines.taken + 1)>>,
                          !.taken = @ + 1]
    /\ UNCHANGED channels
    /\ Background

\* Watcher.run, select: case <-w.done.
WatcherReturn ==
    /\ goroutines.run = "select"
    /\ "done" \in channels.closed
    /\ goroutines' = [goroutines EXCEPT !.run = "returned"]
    /\ UNCHANGED channels
    /\ Background

\* The serial n when its scan completes after Watcher.Stop, for the record
\* of the late scans.
LateScan(n) == IF "done" \in channels.closed THEN {n} ELSE {}

\* Watcher.run: parser.ParseFile on the document of the event, which parses
\* it or fails to open or read it.
WatcherParse ==
    /\ goroutines.run = "parse"
    /\ LET event == goroutines.runHand[1]
       IN \/ \E sh \in WatchParses :
                goroutines' = [goroutines EXCEPT
                                  !.run = "send",
                                  !.runHand = <<[event EXCEPT !.Reminders = sh]>>,
                                  !.late = @ \cup LateScan(event.n)]
          \/ goroutines' = [goroutines EXCEPT
                               !.run = "send",
                               !.runHand = <<[event EXCEPT !.Err = TRUE]>>,
                               !.failed = @ \cup {event.n},
                               !.late = @ \cup LateScan(event.n)]
    /\ UNCHANGED channels
    /\ Background

\* A send of v on the channel ch of capacity cap: a panic when the channel is
\* closed, else it goes through once there is room.
Send(ch, cap, v) ==
    IF ch \in channels.closed
    THEN [panic |-> TRUE, ok |-> TRUE, channels |-> channels]
    ELSE [panic |-> FALSE, ok |-> Len(channels[ch]) < cap,
          channels |-> [channels EXCEPT ![ch] = Append(@, v)]]

\* Watcher.run: w.Events <- FileEvent{...}.
WatcherSend ==
    /\ goroutines.run = "send"
    /\ LET sent == Send("Events", EventsCap, goroutines.runHand[1])
       IN /\ sent.ok
          /\ channels' = sent.channels
          /\ goroutines' =
                IF sent.panic
                THEN [goroutines EXCEPT !.run = "panic", !.panicked = TRUE]
                ELSE [goroutines EXCEPT !.run = "select", !.runHand = <<>>]
    /\ Background

\* A faulty variant of Forwards: every event is passed on.
ForwardsAll(event) == TRUE
\* main's goroutine, "if event.Err != nil { continue }".
Forwards(event) == ~event.Err

\* main's goroutine, "for event := range w.Events": an event with an error
\* is passed over; when w.Events is closed and empty the loop ends and
\* tuiEvents is closed.
ForwardReceive ==
    /\ goroutines.fwd = "range"
    /\ IF channels.Events # <<>>
       THEN LET event == Head(channels.Events)
            IN /\ channels' = [channels EXCEPT !.Events = Tail(@)]
               /\ goroutines' =
                    IF Forwards(event)
                    THEN [goroutines EXCEPT !.fwd = "send", !.fwdHand = <<event>>]
                    ELSE goroutines
       ELSE /\ "Events" \in channels.closed
            /\ channels' = [channels EXCEPT !.closed = @ \cup {"tuiEvents"}]
            /\ goroutines' = [goroutines EXCEPT !.fwd = "returned"]
    /\ Background

\* main's goroutine: tuiEvents <- tui.FileUpdateMsg{...}.
ForwardSend ==
    /\ goroutines.fwd = "send"
    /\ LET sent == Send("tuiEvents", TuiEventsCap, goroutines.fwdHand[1])
       IN /\ sent.ok
          /\ channels' = sent.channels
          /\ goroutines' =
                IF sent.panic
                THEN [goroutines EXCEPT !.fwd = "panic", !.panicked = TRUE]
                ELSE [goroutines EXCEPT !.fwd = "range", !.fwdHand = <<>>]
    /\ Background

\* The command of Model.waitForFileUpdate: it receives from the channel and
\* returns the event as its message, or returns nil when the channel is
\* closed.  The program hands the message of a command to Update when it
\* gets to it: until then the command holds it.
WaitReceive ==
    /\ goroutines.waits > 0
    /\ IF channels.tuiEvents # <<>>
       THEN /\ channels' = [channels EXCEPT !.tuiEvents = Tail(@)]
            /\ goroutines' = [goroutines EXCEPT
                                 !.waits = @ - 1,
                                 !.held = Append(@, Head(channels.tuiEvents))]
       ELSE /\ "tuiEvents" \in channels.closed
            /\ goroutines' = [goroutines EXCEPT !.waits = @ - 1]
            /\ UNCHANGED channels
    /\ Background

\* A faulty variant of FileUpdateCmd: two waits are started.
FileUpdateCmdTwice(waits) == waits + 2
\* The command Update returns with a FileUpdateMsg, m.waitForFileUpdate():
\* one more wait on the channel.
FileUpdateCmd(waits) == waits + 1
\* A faulty variant of TickCmds: the tick is armed again in normal mode only.
TickCmdsInNormalMode(m) == IF m = "normal" THEN 1 ELSE 0
\* The commands Update returns with a TickMsg in mode m: tickCmd().
TickCmds(m) == 1

\* Model.Update, case FileUpdateMsg, on the message a command delivers.
FileUpdateFromWatcher ==
    \E k \in 1..Len(goroutines.held) :
        LET msg == goroutines.held[k]
        IN /\ HandleFileUpdate(FileUpdateMsg(msg.FilePath, msg.Reminders))
           /\ goroutines' = [goroutines EXCEPT !.held = RemoveAt(@, k),
                                               !.waits = FileUpdateCmd(@)]
           /\ applied' = Append(applied, msg.n)
           /\ UNCHANGED channels

\* Model.Update, case TickMsg, on the message of the tick command.
TickFromTimer ==
    /\ goroutines.ticks > 0
    /\ Tick
    /\ goroutines' = [goroutines EXCEPT !.ticks = (@ - 1) + TickCmds(mode)]
    /\ UNCHANGED <<channels, applied>>

\* updateNormalMode, keys.Quit: tea.Quit, Run returns.
KeyQuit ==
    /\ pc = "run" /\ mode = "normal"
    /\ Handled
    /\ pc' = "quit"
    /\ pendingDelete' = FALSE
    /\ lastEvent' = KeyEvent
    /\ UNCHANGED <<reminders, fileReminders, startIdx, now, compactIndex, mode,
                   inputError, editingReminder, detailReminder>>
    /\ UNCHANGED pureVars

\* A faulty variant of Stop: w.Events is closed as well.
StopClosesEvents == {"done", "fsWatcher", "Events"}
\* Watcher.Stop: close(w.done) and w.fsWatcher.Close().
StopCloses == {"done", "fsWatcher"}

\* The end of main: the deferred w.Stop().  The goroutines run on until the
\* process ends.
Stop ==
    /\ pc = "quit"
    /\ pc' = "stopped"
    /\ channels' = [channels EXCEPT !.closed = @ \cup StopCloses]
    /\ UNCHANGED <<reminders, fileReminders, startIdx, now, compactIndex, mode,
                   inputError, lastEvent, goroutines, applied>>
    /\ UNCHANGED idleVars
    /\ UNCHANGED saveVars
    /\ UNCHANGED pureVars

\* main: w.Start(), the forwarding goroutine, and Model.Init with its two
\* commands.
StartWatch ==
    /\ goroutines' = [goroutines EXCEPT !.run = "select", !.fwd = "range",
                                        !.waits = 1, !.ticks = 1]
    /\ UNCHANGED <<channels, applied>>

\* What ParseInitial makes of one document of the directory.
ScanOutcomes == {[err |-> TRUE, sh |-> <<>>]} \cup {[err |-> FALSE, sh |-> sh] : sh \in WatchParses}

\* watcher.ParseInitial on a directory with the documents Files: a document
\* that cannot be parsed is logged and passed over.
ParseInitialDirectory(used) ==
    {LET first == IF o1.err THEN <<>>
                  ELSE ParseFile("f1.md", o1.sh, FreshIds(used, Len(o1.sh), 1))
         second == IF o2.err THEN <<>>
                   ELSE ParseFile("f2.md", o2.sh,
                                  FreshIds(used \cup Ids(first), Len(o2.sh), 1))
     IN [allReminders |-> first \o second,
         failed |-> (IF o1.err THEN {"f1.md"} ELSE {})
                        \cup (IF o2.err THEN {"f2.md"} ELSE {})] :
     o1 \in ScanOutcomes, o2 \in ScanOutcomes}

\* updateNormalMode, keys.Filter: open the filter input.
KeyFilter ==
    /\ pc = "run" /\ mode = "normal"
    /\ Handled
    /\ mode' = "filter"
    /\ pendingDelete' = FALSE
    /\ lastEvent' = KeyEvent
    /\ UNCHANGED <<pc, reminders, fileReminders, startIdx, now, compactIndex,
                   inputError, editingReminder, detailReminder>>
    /\ UNCHANGED pureVars

\* updateFilterMode, Escape or Enter on an input nothing was typed in:
\* Escape resets the input and Enter keeps it, which is the same empty
\* filter.
FilterClose ==
    /\ pc = "run" /\ mode = "filter"
    /\ Handled
    /\ mode' = "normal"
    /\ lastEvent' = KeyEvent
    /\ UNCHANGED <<pc, reminders, fileReminders, startIdx, now, compactIndex,
                   inputError>>
    /\ UNCHANGED pointerVars
    /\ UNCHANGED pureVars

\* updateNormalMode, keys.Theme: open the theme picker.
KeyTheme ==
    /\ pc = "run" /\ mode = "normal"
    /\ Handled
    /\ mode' = "theme"
    /\ pendingDelete' = FALSE
    /\ lastEvent' = KeyEvent
    /\ UNCHANGED <<pc, reminders, fileReminders, startIdx, now, compactIndex,
                   inputError, editingReminder, detailReminder>>
    /\ UNCHANGED pureVars

\* updateThemeMode, Escape or Enter: the picker closes; the theme is no part
\* of the state followed here.
ThemeClose ==
    /\ pc = "run" /\ mode = "theme"
    /\ Handled
    /\ mode' = "normal"
    /\ lastEvent' = KeyEvent
    /\ UNCHANGED <<pc, reminders, fileReminders, startIdx, now, compactIndex,
                   inputError>>
    /\ UNCHANGED pointerVars
    /\ UNCHANGED pureVars

\* ------------------------------------------------------------- SpecTick
\* The program without a watched path, its tick command and the keys that
\* change the input mode: Model.Init starts tickCmd() alone.
TickStarts ==
    {rs \in StartStates :
        \A i \in 1..Len(rs) :
            rs[i].SourceFile = TUIOrigin /\ rs[i].Status = Pending}

InitTick ==
    /\ MergeOff
    /\ ParseOff
    /\ SavesOff
    /\ pc = "run"
    /\ reminders \in TickStarts
    /\ fileReminders = <<>>
    /\ startIdx = 0
    /\ now = 0
    /\ compactIndex = 0
    /\ mode = "normal"
    /\ inputError = ""
    /\ editingReminder = Nil
    /\ detailReminder = Nil
    /\ pendingDelete = FALSE
    /\ budget = Unbounded
    /\ lastEvent = NoEvent
    /\ channels = NoChannels
    /\ goroutines = [NoGoroutines EXCEPT !.ticks = 1]
    /\ applied = <<>>

NextTick ==
    \/ AdvanceClock /\ NoSave /\ NoWatch
    \/ TickFromTimer /\ NoSave
    \/ KeyDown /\ NoSave /\ NoWatch
    \/ KeyAcknowledge /\ NoSave /\ NoWatch
    \/ KeyFilter /\ NoSave /\ NoWatch
    \/ FilterClose /\ NoSave /\ NoWatch
    \/ KeyTheme /\ NoSave /\ NoWatch
    \/ ThemeClose /\ NoSave /\ NoWatch
    \/ KeyAdd /\ NoSave /\ NoWatch
    \/ AddEscape /\ NoSave /\ NoWatch
    \/ KeyDetail /\ NoSave /\ NoWatch
    \/ DetailEscape /\ NoSave /\ NoWatch
    \/ KeyQuit /\ NoSave /\ NoWatch

SpecTick == InitTick /\ [][NextTick]_vars

\* The timer of tea.Tick fires after a second and the program hands its
\* message to Update: a tick that is armed is handled in the end.
SpecTickFair == SpecTick /\ WF_vars(TickFromTimer /\ NoSave)

\* ------------------------------------------------------------ SpecWatch
\* main on a directory, then the program with the watcher at work.
WatchSaved ==
    {rs \in SavedStates : \A i \in 1..Len(rs) : rs[i].SourceFile \in Files}

InitWatch ==
    /\ MergeOff
    /\ ParseOff
    /\ SavesOff
    /\ pc = "merge"
    /\ reminders \in WatchSaved
    /\ \E scan \in ParseInitialDirectory(Ids(reminders)) :
        /\ fileReminders = scan.allReminders
        /\ goroutines = [NoGoroutines EXCEPT !.scanFailed = scan.failed]
    /\ Len(reminders) + Len(fileReminders) <= MaxReminders
    /\ startIdx = 1
    /\ now = 0
    /\ compactIndex = 0
    /\ mode = "normal"
    /\ inputError = ""
    /\ editingReminder = Nil
    /\ detailReminder = Nil
    /\ pendingDelete = FALSE
    /\ budget = MaxEvents
    /\ lastEvent = NoEvent
    /\ channels = NoChannels
    /\ applied = <<>>

NextWatch ==
    \/ StartupMergeStep /\ NoSave /\ NoWatch
    \/ StartupRun /\ NoSave /\ StartWatch
    \/ WatcherSelect
    \/ WatcherParse
    \/ WatcherSend
    \/ WatcherReturn
    \/ ForwardReceive
    \/ ForwardSend
    \/ WaitReceive
    \/ FileUpdateFromWatcher /\ NoSave
    \/ KeyQuit /\ NoSave /\ NoWatch
    \/ Stop

SpecWatch == InitWatch /\ [][NextWatch]_vars

\* ----------------------------------------------------- claims: Reconcile
Merged == mPc \in {"merged", "remerged"}
OfFile(r) == r.SourceFile = mFile
Live(r) == r.Status \in {Pending, Triggered}
\* How many entries of s are the allocation id.
Count(s, id) == Cardinality({i \in 1..Len(s) : s[i].id = id})

\* C1: MergeFromFile for a document keeps every Acknowledged reminder of that
\* document in its output, once and with every field as it was, whatever the
\* fresh parse holds.
C1_AcknowledgedKept ==
    Merged =>
        \A i \in 1..Len(mExisting) :
            (OfFile(mExisting[i]) /\ mExisting[i].Status = Acknowledged)
                => /\ mExisting[i] \in Range(mOut)
                   /\ Count(mOut, mExisting[i].id) = 1

C1_Witness ==
    /\ Merged
    /\ mNew # <<>>
    /\ \E i \in 1..Len(mExisting) :
            /\ OfFile(mExisting[i])
            /\ mExisting[i].Status = Acknowledged
            /\ mExisting[i].Description \notin NewByDesc(mNew)
            /\ mExisting[i] \in Range(mOut)

\* C2: MergeFromFile for a document removes every Pending or Triggered
\* reminder of that document whose description is the description of no
\* entry of the fresh parse.
C2_StaleDropped ==
    Merged =>
        \A i \in 1..Len(mExisting) :
            (/\ OfFile(mExisting[i])
             /\ Live(mExisting[i])
             /\ mExisting[i].Description \notin NewByDesc(mNew))
                => mExisting[i].id \notin Ids(mOut)

C2_Witness ==
    /\ Merged
    /\ \E i \in 1..Len(mExisting) :
            /\ OfFile(mExisting[i])
            /\ mExisting[i].Status = Triggered
            /\ mExisting[i].Description \notin NewByDesc(mNew)
            /\ mExisting[i].id \notin Ids(mOut)
    /\ mOut # <<>>

\* An existing reminder that MergeFromFile keeps and that belongs to the
\* merged document: Acknowledged, or with a description of the fresh parse.
KeptOfFile(r) ==
    /\ OfFile(r)
    /\ \/ r.Status = Acknowledged
       \/ r.Description \in NewByDesc(mNew)

\* C6: the output holds a fresh entry exactly when no kept existing reminder
\* of the merged document has its description; an appended entry is the
\* fresh entry itself, Pending, and appears once per fresh entry.
C6_FreshAppendedIffUnmatched ==
    Merged =>
        \A j \in 1..Len(mNew) :
            LET matched == \E i \in 1..Len(mExisting) :
                               /\ KeptOfFile(mExisting[i])
                               /\ mExisting[i].Description = mNew[j].Description
            IN /\ (mNew[j].id \in Ids(mOut)) <=> ~matched
               /\ ~matched => /\ mNew[j] \in Range(mOut)
                              /\ mNew[j].Status = Pending
                              /\ Count(mOut, mNew[j].id) = 1

C6_Witness ==
    /\ Merged
    /\ \E j, k \in 1..Len(mNew) :
            /\ mNew[j].id \in Ids(mOut)
            /\ mNew[k].id \notin Ids(mOut)
            /\ \E i \in 1..Len(mExisting) :
                   /\ OfFile(mExisting[i])
                   /\ mExisting[i].Status = Acknowledged
                   /\ mExisting[i].Description = mNew[k].Description

\* C7: MergeFromFile is idempotent: merging the same parse of the same
\* document into its own output gives that output again, entry for entry.
C7_Idempotent ==
    mPc = "remerged" => mOut2 = mOut

C7_Witness ==
    /\ mPc = "remerged"
    /\ mOut2 = mOut
    /\ mOut # mExisting
    /\ \E i \in 1..Len(mExisting) : mExisting[i].id \notin Ids(mOut)
    /\ \E j \in 1..Len(mNew) : mNew[j].id \in Ids(mOut)

\* C8 as claimed: an existing reminder of the merged document that matches
\* a fresh entry by description comes out with its own status and when and
\* with the tags and line number of a fresh entry of that description.
C8_Original ==
    Merged =>
        \A i \in 1..Len(mExisting) :
            (OfFile(mExisting[i]) /\ mExisting[i].Description \in NewByDesc(mNew))
                => \E k \in 1..Len(mOut) :
                       /\ mOut[k].id = mExisting[i].id
                       /\ mOut[k].Status = mExisting[i].Status
                       /\ mOut[k].DateTime = mExisting[i].DateTime
                       /\ \E j \in 1..Len(mNew) :
                              /\ mNew[j].Description = mOut[k].Description
                              /\ mOut[k].Tags = mNew[j].Tags
                              /\ mOut[k].LineNumber = mNew[j].LineNumber

\* C8 (amended): an existing reminder of the merged document that matches a
\* fresh entry by description comes out with every field as it was, tags and
\* line number included: whenever a matching fresh entry differs in tags or
\* line number, the output carries the existing ones.
C8_MatchedKeptVerbatim ==
    Merged =>
        \A i \in 1..Len(mExisting) : \A j \in 1..Len(mNew) :
            (OfFile(mExisting[i]) /\ mExisting[i].Description = mNew[j].Description)
                => /\ mExisting[i].id \in Ids(mOut)
                   /\ \A k \in 1..Len(mOut) :
                       mOut[k].id = mExisting[i].id
                           => /\ mOut[k].Tags = mExisting[i].Tags
                              /\ mOut[k].LineNumber = mExisting[i].LineNumber
                              /\ mOut[k].DateTime = mExisting[i].DateTime
                              /\ mOut[k].Status = mExisting[i].Status
                              /\ mOut[k].Description = mExisting[i].Description
                              /\ mOut[k].SourceFile = mExisting[i].SourceFile

C8_Witness ==
    /\ Merged
    /\ \E i \in 1..Len(mExisting) : \E j \in 1..Len(mNew) :
            /\ OfFile(mExisting[i])
            /\ mExisting[i].Status = Pending
            /\ mExisting[i].Description = mNew[j].Description
            /\ mNew[j].Tags # mExisting[i].Tags
            /\ mNew[j].LineNumber # mExisting[i].LineNumber
            /\ mExisting[i] \in Range(mOut)

\* ---------------------------------------------- claims: the event loop
\* A reminder without the name of its allocation.
Val(r) == [r EXCEPT !.id = 0]
\* How many reminders of s have the fields of v.
CountVal(s, v) == Cardinality({i \in 1..Len(s) : Val(s[i]) = v})
Vals(s) == {Val(s[i]) : i \in 1..Len(s)}
\* The step handles a file update: only HandleFileUpdate ends with a file
\* update as the last message and the clock where it was.
FileUpdateStep == lastEvent'.kind = "FileUpdate" /\ now' = now

\* C3: a file update keeps every Pending or Triggered reminder of the updated
\* document whose description is in the fresh parse, with its old when, its
\* old status and its other fields: the when of the fresh entry is not used,
\* so no re-parse in which the description stays present overwrites a snoozed
\* when or a status set by the user or the scheduler.
C3_MatchedLiveSurvivesReparse ==
    [][FileUpdateStep =>
          \A v \in Vals(reminders) :
              (/\ v.SourceFile = lastEvent'.file
               /\ v.Status \in {Pending, Triggered}
               /\ v.Description \in lastEvent'.descs)
                  => CountVal(reminders', v) = CountVal(reminders, v)]_vars

\* A file update has just been handled and the collection holds a reminder
\* of the updated document that was snoozed, and one that is Triggered.
C3_Witness ==
    /\ lastEvent.kind = "FileUpdate"
    /\ \E i, j \in 1..Len(reminders) :
          /\ reminders[i].SourceFile = lastEvent.file
          /\ reminders[i].Status = Pending
          /\ reminders[i].DateTime \notin FreshTimes
          /\ reminders[j].SourceFile = lastEvent.file
          /\ reminders[j].Status = Triggered

\* C4: when main's startup merge loop has run over the whole initial parse,
\* the collection holds, for every reminder of the initial parse, an entry
\* with its origin and its description.
C4_StartupKeepsInitialParse ==
    (pc = "merge" /\ startIdx > Len(fileReminders)) =>
        \A j \in 1..Len(fileReminders) :
            \E i \in 1..Len(reminders) :
                /\ reminders[i].SourceFile = fileReminders[j].SourceFile
                /\ reminders[i].Description = fileReminders[j].Description

\* C5: a file update leaves every reminder whose origin is not the updated
\* document in the collection with all fields unchanged; so a reminder added
\* in the TUI is neither removed nor modified by file updates.
C5_OtherOriginsUntouched ==
    [][FileUpdateStep =>
          \A v \in Vals(reminders) \cup Vals(reminders') :
              v.SourceFile # lastEvent'.file
                  => CountVal(reminders', v) = CountVal(reminders, v)]_vars

\* A file update has just been handled and the collection holds a snoozed
\* reminder that was added in the TUI.
C5_Witness ==
    /\ lastEvent.kind = "FileUpdate"
    /\ \E i \in 1..Len(reminders) :
          /\ reminders[i].SourceFile = TUIOrigin
          /\ reminders[i].DateTime \notin FreshTimes
    /\ \E i \in 1..Len(reminders) : reminders[i].SourceFile = lastEvent.file

\* C9 as claimed: a tick makes every Pending reminder whose when is at or
\* before the current instant Triggered, when = now included.
C9_Original ==
    [][Tick =>
          \A i \in 1..Len(reminders) :
              (reminders[i].Status = Pending /\ reminders[i].DateTime <= now)
                  => reminders'[i].Status = Triggered]_vars

\* C9 (amended): a tick makes every Pending reminder whose when is strictly
\* before the current instant Triggered, and leaves Pending every reminder
\* whose when is at or after the instant the clock shows when the tick ends,
\* the case when = now included.
C9_TickTriggersPast ==
    [][Tick =>
          \A i \in 1..Len(reminders) :
              reminders[i].Status = Pending
                  => /\ reminders[i].DateTime < now => reminders'[i].Status = Triggered
                     /\ reminders[i].DateTime >= now' => reminders'[i].Status = Pending]_vars

\* A tick has just been handled: a reminder of the past is Triggered and a
\* reminder whose when is the current instant is still Pending.
C9_Witness ==
    /\ lastEvent.kind = "Tick"
    /\ \E i, j \in 1..Len(reminders) :
          /\ reminders[i].Status = Triggered
          /\ reminders[i].DateTime < now
          /\ reminders[j].Status = Pending
          /\ reminders[j].DateTime = now

\* C10: a tick changes only the status of Pending reminders that are due, to
\* Triggered: Triggered and Acknowledged reminders, every other field, the
\* membership and the order of the collection, the selection and the input
\* mode stay as they are; and a tick that follows a tick at the same instant
\* changes nothing.
C10_TickFrame ==
    [][Tick =>
          /\ Len(reminders') = Len(reminders)
          /\ \A i \in 1..Len(reminders) :
                /\ [reminders'[i] EXCEPT !.Status = reminders[i].Status] = reminders[i]
                /\ reminders[i].Status # Pending => reminders'[i] = reminders[i]
                /\ reminders'[i].Status # reminders[i].Status
                      => /\ reminders'[i].Status = Triggered
                         /\ reminders[i].DateTime < now'
          /\ UNCHANGED <<compactIndex, mode, inputError, pc>>
          /\ (lastEvent.kind = "Tick" /\ lastEvent.at = now /\ now' = now)
                => reminders' = reminders]_vars

\* A tick has just been handled after which an Acknowledged reminder of the
\* past and a Triggered one are in the collection.
C10_Witness ==
    /\ lastEvent.kind = "Tick"
    /\ lastEvent.at = now
    /\ \E i, j \in 1..Len(reminders) :
          /\ reminders[i].Status = Acknowledged
          /\ reminders[i].DateTime < now
          /\ reminders[j].Status = Triggered

\* ------------------------------------------------ claims: user actions
\* The lengths of the word prefixes of the content that datetime.Parse
\* resolves.
ResolvedPrefixes(words, relativeTo) ==
    {k \in 1..(Len(words) - 1) : Parse(Prefix(words, k), relativeTo).ok}
\* s and t hold the same reminders, field for field, in some order.
SameVals(s, t) ==
    /\ Len(s) = Len(t)
    /\ \A v \in Vals(s) \cup Vals(t) : CountVal(s, v) = CountVal(t, v)
CountAcknowledged(s) == Cardinality({i \in 1..Len(s) : s[i].Status = Acknowledged})
\* The step is a successful edit of a reminder of the collection.
EditOfMember == EditEnter /\ mode' = "normal" /\ editingReminder.at # 0

\* C11: in every step that is neither an unacknowledge nor a delete (tick,
\* snooze, edit, file update and every other key), each Acknowledged reminder
\* of the collection stays in the collection, Acknowledged: field for field,
\* except for the when, description and tags an edit gives to its target.
C11_AcknowledgedStays ==
    [][(~(KeyUnacknowledge \/ DetailUnacknowledge \/ KeyDelete \/ DetailDelete))
        => LET others == IF EditOfMember
                         THEN RemoveAt(reminders, editingReminder.at)
                         ELSE reminders
           IN /\ CountAcknowledged(reminders') >= CountAcknowledged(reminders)
              /\ \A v \in Vals(others) :
                    v.Status = Acknowledged
                        => CountVal(reminders', v) >= CountVal(others, v)]_vars

\* An Acknowledged reminder was edited to a time in the past and is still
\* Acknowledged.
C11_Witness ==
    /\ lastEvent.kind = "Edit"
    /\ lastEvent.was = Acknowledged
    /\ lastEvent.at # 0
    /\ Len(reminders) = 1
    /\ reminders[1].Status = Acknowledged
    /\ reminders[1].DateTime < now

\* C12: the acknowledge key, in normal mode on the selected reminder and in
\* the detail view on the reminder shown, sets the status of a Pending or
\* Triggered reminder to Acknowledged and changes no other field of it and no
\* other reminder; on an Acknowledged reminder it changes nothing.
C12_AcknowledgeSetsStatus ==
    [][/\ KeyAcknowledge =>
            LET i == selectedReminder
            IN IF i # 0 /\ reminders[i].Status \in {Pending, Triggered}
               THEN reminders' = [reminders EXCEPT ![i].Status = Acknowledged]
               ELSE reminders' = reminders
       /\ DetailAcknowledge =>
            LET p == detailReminder
            IN IF p # Nil /\ Deref(p, reminders).Status \in {Pending, Triggered}
               THEN /\ Deref(detailReminder', reminders')
                        = [Deref(p, reminders) EXCEPT !.Status = Acknowledged]
                    /\ detailReminder'.at = p.at
                    /\ \A j \in 1..Len(reminders) :
                            j # p.at => reminders'[j] = reminders[j]
                    /\ Len(reminders') = Len(reminders)
               ELSE /\ reminders' = reminders
                    /\ detailReminder' = detailReminder]_vars

\* The detail view acknowledged the Pending reminder it shows.
C12_Witness ==
    /\ lastEvent.kind = "Acknowledge"
    /\ lastEvent.was = Pending
    /\ mode = "detail"
    /\ detailReminder.at # 0
    /\ Len(reminders) = 2
    /\ reminders[detailReminder.at].Status = Acknowledged

\* C13: the unacknowledge key, in normal mode and in the detail view, sets
\* the status of an Acknowledged reminder to Triggered if its when is before
\* the current time and to Pending otherwise, and leaves its when and every
\* other field unchanged; on a reminder that is not Acknowledged it changes
\* nothing.
C13_UnacknowledgeResolves ==
    [][/\ KeyUnacknowledge =>
            LET i == selectedReminder
            IN IF i # 0 /\ reminders[i].Status = Acknowledged
               THEN reminders' =
                        [reminders EXCEPT ![i].Status =
                            IF reminders[i].DateTime < now THEN Triggered ELSE Pending]
               ELSE reminders' = reminders
       /\ DetailUnacknowledge =>
            LET p == detailReminder
            IN IF p # Nil /\ Deref(p, reminders).Status = Acknowledged
               THEN /\ Deref(detailReminder', reminders')
                        = [Deref(p, reminders) EXCEPT !.Status =
                              IF Deref(p, reminders).DateTime < now
                              THEN Triggered ELSE Pending]
                    /\ detailReminder'.at = p.at
                    /\ \A j \in 1..Len(reminders) :
                            j # p.at => reminders'[j] = reminders[j]
                    /\ Len(reminders') = Len(reminders)
               ELSE /\ reminders' = reminders
                    /\ detailReminder' = detailReminder]_vars

\* An Acknowledged reminder whose when equals the current time was
\* unacknowledged to Pending, next to one whose when has passed.
C13_Witness ==
    /\ lastEvent.kind = "Unacknowledge"
    /\ lastEvent.was = Acknowledged
    /\ mode = "normal"
    /\ selectedReminder # 0
    /\ reminders[selectedReminder].Status = Pending
    /\ reminders[selectedReminder].DateTime = now

\* The reminder r after a snooze by duration counted from the current time.
SnoozedFromNow(r, duration) ==
    Val([r EXCEPT !.DateTime = now + duration, !.Status = Pending])

\* C14: a snooze with offset d on a Triggered reminder, from normal mode on
\* the selected reminder and from the detail view on the reminder shown, sets
\* its status to Pending and its when to the current time plus d.
C14_SnoozeFromNow ==
    [][\A d \in Durations :
        /\ snooze(d) =>
            LET i == selectedReminder
            IN (i # 0 /\ reminders[i].Status = Triggered)
                => CountVal(reminders', SnoozedFromNow(reminders[i], d)) >= 1
        /\ detailSnooze(d) =>
            LET p == detailReminder
            IN (p # Nil /\ Deref(p, reminders).Status = Triggered)
                => Val(Deref(detailReminder', reminders'))
                        = SnoozedFromNow(Deref(p, reminders), d)]_vars

\* C15: a snooze with offset d on a Pending reminder whose when is after the
\* current time, from normal mode and from the detail view, sets its when to
\* the current time plus d and leaves it Pending.
C15_SnoozePendingFromNow ==
    [][\A d \in Durations :
        /\ snooze(d) =>
            LET i == selectedReminder
            IN (i # 0 /\ reminders[i].Status = Pending /\ reminders[i].DateTime > now)
                => CountVal(reminders', SnoozedFromNow(reminders[i], d)) >= 1
        /\ detailSnooze(d) =>
            LET p == detailReminder
            IN (/\ p # Nil
                /\ Deref(p, reminders).Status = Pending
                /\ Deref(p, reminders).DateTime > now)
                => Val(Deref(detailReminder', reminders'))
                        = SnoozedFromNow(Deref(p, reminders), d)]_vars

\* C16: a successful edit of a reminder of the collection sets its status
\* from the new when: a Pending or Triggered reminder ends Triggered if the
\* new when is before the current time and Pending if it is not; an
\* Acknowledged reminder stays Acknowledged.
C16_EditSetsStatus ==
    [][EditOfMember =>
        LET i == editingReminder.at
            old == reminders[i]
        IN \E j \in 1..Len(reminders') :
            /\ SameVals(RemoveAt(reminders', j), RemoveAt(reminders, i))
            /\ reminders'[j].Status =
                IF old.Status = Acknowledged THEN Acknowledged
                ELSE IF reminders'[j].DateTime < now THEN Triggered
                ELSE Pending]_vars

\* A Triggered reminder was edited to a when that is not past and is Pending.
C16_Witness ==
    /\ lastEvent.kind = "Edit"
    /\ lastEvent.was = Triggered
    /\ lastEvent.at # 0
    /\ Len(reminders) = 1
    /\ reminders[1].Status = Pending
    /\ reminders[1].DateTime >= now

\* C17: a successful edit gives its target the when, the description and the
\* tags of the submitted text and leaves its origin and line number as they
\* were; the collection holds the same number of reminders and every other
\* reminder has all its fields as before.  The target may have left the
\* collection while the input was open: then the collection is as before.
C17_EditFrame ==
    [][(EditEnter /\ mode' = "normal") =>
         IF editingReminder.at = 0
         THEN SameVals(reminders', reminders)
         ELSE LET i == editingReminder.at
                  old == reminders[i]
              IN \E j \in 1..Len(reminders') : \E input \in EditInputs :
                    LET parsed == TryPrefixes(input, now, Len(input) - 1)
                    IN /\ parsed.ok
                       /\ reminders'[j].DateTime = parsed.DateTime
                       /\ reminders'[j].Description = parsed.Description
                       /\ reminders'[j].Tags = parsed.Tags
                       /\ reminders'[j].SourceFile = old.SourceFile
                       /\ reminders'[j].LineNumber = old.LineNumber
                       /\ SameVals(RemoveAt(reminders', j), RemoveAt(reminders, i))]_vars

\* A reminder parsed from a document was edited: it has the tag of the
\* submitted text and still its origin and line, next to another reminder.
C17_Witness ==
    /\ lastEvent.kind = "Edit"
    /\ lastEvent.at # 0
    /\ Len(reminders) = 2
    /\ \E i \in 1..2 :
        /\ reminders[i].Tags = <<"work">>
        /\ reminders[i].SourceFile = "f1.md"
        /\ reminders[i].LineNumber # 0

\* The text has fewer than two words or no word prefix that resolves at t.
Unacceptable(input, t) == Len(input) < 2 \/ ResolvedPrefixes(input, t) = {}

\* C18: Enter in the add/edit input on a text that is empty, has fewer than
\* two words or has no word prefix that resolves leaves the collection and
\* the reminder being edited unchanged and the mode add/edit, with the error
\* message set.  Escape in the add/edit input leaves the collection
\* unchanged, clears the reminder being edited and returns to normal mode.
C18_RejectedInputChangesNothing ==
    [][/\ \A input \in EditInputs :
            (Unacceptable(input, now) /\ (addEnter(input) \/ editEnter(input)))
                => /\ reminders' = reminders
                   /\ editingReminder' = editingReminder
                   /\ mode' = "add"
                   /\ inputError' # ""
       /\ AddEscape
            => /\ reminders' = reminders
               /\ editingReminder' = Nil
               /\ mode' = "normal"]_vars

\* An edit was submitted with a text without a datetime: the input is still
\* open on the reminder, with the message.
C18_Witness ==
    /\ mode = "add"
    /\ editingReminder # Nil
    /\ inputError = "couldn't parse time from input"
    /\ lastEvent = KeyEvent

\* C19: while the TUI runs, after every event, the collection is ordered by
\* non-decreasing when.
C19_OrderedByWhen == pc = "run" => IsSortedByDateTime(reminders)

\* A snooze in the detail view moved the first reminder behind the second.
C19_Witness ==
    /\ lastEvent.kind = "Snooze"
    /\ lastEvent.at = 1
    /\ mode = "detail"
    /\ detailReminder.at = 2
    /\ Len(reminders) = 2
    /\ reminders[1].DateTime < reminders[2].DateTime

\* ------------------------------------------ claims: parseReminderContent
Longest(ks) == CHOOSE k \in ks : \A j \in ks : j <= k
NotTagToken(w) == ~IsTagToken(w)

\* C20 as stated: the datetime is the longest resolving word prefix and the
\* description is exactly the remaining words.
C20_Original ==
    (pPc = "parsed" /\ Len(pContent) >= 2) =>
        LET ks == ResolvedPrefixes(pContent, pRelativeTo)
        IN IF ks = {} THEN ~pResult.ok
           ELSE /\ pResult.ok
                /\ pResult.DateTime
                        = Parse(Prefix(pContent, Longest(ks)), pRelativeTo).t
                /\ pResult.Description = Join(Rest(pContent, Longest(ks)))

\* C20 (amended): for marker content of n >= 2 words, the datetime is the
\* longest word prefix, of length n-1 down to 1, that the resolver accepts;
\* the description is the remaining words without the tag tokens, joined by
\* single spaces, and the tags are the names of those tag tokens.  No prefix
\* resolving, there is no reminder.
C20_LongestPrefixWins ==
    (pPc = "parsed" /\ Len(pContent) >= 2) =>
        LET ks == ResolvedPrefixes(pContent, pRelativeTo)
        IN IF ks = {} THEN ~pResult.ok
           ELSE LET rest == Rest(pContent, Longest(ks))
                    tagTokens == SelectSeq(rest, IsTagToken)
                IN /\ pResult.ok
                   /\ pResult.DateTime
                        = Parse(Prefix(pContent, Longest(ks)), pRelativeTo).t
                   /\ pResult.Description = Join(SelectSeq(rest, NotTagToken))
                   /\ pResult.Tags
                        = [i \in 1..Len(tagTokens) |-> TagName(tagTokens[i])]

\* "friday 10am a": both "friday" and "friday 10am" resolve, and the parse
\* took the two words.
C20_Witness ==
    /\ pPc = "parsed"
    /\ pContent = <<"friday", "10am", "a">>
    /\ Parse(<<"friday">>, pRelativeTo).ok
    /\ Parse(<<"friday", "10am">>, pRelativeTo).ok
    /\ pResult.ok
    /\ pResult.Description = "a"
    /\ pResult.DateTime # Parse(<<"friday">>, pRelativeTo).t

\* ------------------------------------------------ claims: document scan
\* The markers of a document in reading order, each with the number of its
\* line, counted from 1.
RECURSIVE MarkersFrom(_, _, _)
MarkersFrom(lines, l, k) ==
    IF l > Len(lines) THEN <<>>
    ELSE IF k > Len(lines[l]) THEN MarkersFrom(lines, l + 1, 1)
    ELSE <<[line |-> l, content |-> lines[l][k]]>> \o MarkersFrom(lines, l, k + 1)
Markers(lines) == MarkersFrom(lines, 1, 1)
\* The marker has two words or more and a word prefix that resolves.
Acceptable(m) == ~Unacceptable(m.content, pRelativeTo)
DocumentScanned == pPc = "scanned"

\* C21: a marker with fewer than two words, or with no word prefix that
\* resolves, yields no reminder and no error for the document, and every
\* other marker of its line and of the other lines yields its reminder: the
\* scan returns one reminder for each of the other markers.
C21_InvalidMarkerSkipped ==
    DocumentScanned =>
        LET accepted == SelectSeq(Markers(pContent), Acceptable)
        IN /\ ~pResult.err
           /\ Len(pResult.reminders) = Len(accepted)
           /\ \A i \in 1..Len(accepted) :
                pResult.reminders[i].DateTime
                    = parseReminderContent(accepted[i].content, pRelativeTo).DateTime

\* A line holds a marker of one word between two markers with a datetime, and
\* the line after it holds one more.
C21_Witness ==
    /\ DocumentScanned
    /\ Len(pContent) = 2
    /\ pContent[1] = <<<<"+5m", "a">>, <<"a">>>>
    /\ pContent[2] = <<<<"a", "b">>, <<"friday", "10am", "b">>>>
    /\ Len(pResult.reminders) = 2

\* C22: every reminder a document scan returns is Pending, has the path of
\* the document as its origin and the 1-based number of the line of its
\* marker as its line; the reminders are in the order of their markers, line
\* by line and from left to right in a line.
C22_ScanFields ==
    DocumentScanned =>
        LET accepted == SelectSeq(Markers(pContent), Acceptable)
        IN /\ Len(pResult.reminders) = Len(accepted)
           /\ \A i \in 1..Len(accepted) :
                LET r == pResult.reminders[i]
                    parsed == parseReminderContent(accepted[i].content, pRelativeTo)
                IN /\ r.Status = Pending
                   /\ r.SourceFile = "f1.md"
                   /\ r.LineNumber = accepted[i].line
                   /\ r.DateTime = parsed.DateTime
                   /\ r.Description = parsed.Description
                   /\ r.Tags = parsed.Tags

\* The second line holds two markers with a datetime: two reminders of line
\* 2, the left one first.
C22_Witness ==
    /\ DocumentScanned
    /\ Len(pContent) = 2
    /\ pContent[1] = <<>>
    /\ pContent[2] = <<<<"friday", "10am", "b">>, <<"+5m", "a">>>>
    /\ Len(pResult.reminders) = 2
    /\ pResult.reminders[1].Description = "b"
    /\ pResult.reminders[2].Description = "a"
    /\ pResult.reminders[2].LineNumber = 2

\* C23: every reminder a document scan returns has a description that is
\* not empty, also when the words after the datetime are all tag tokens.
C23_DescriptionNonEmpty ==
    DocumentScanned =>
        \A i \in 1..Len(pResult.reminders) : pResult.reminders[i].Description # ""

\* ------------------------------------------------- claims: ExtractTags
\* The text holds a tag token: a '#' at its start or right after a space,
\* followed by a word character.
HasTagToken(text) == \E i \in 1..Len(text) : MatchAt(text, i) > 0

\* C24: ExtractTags is idempotent on the clean text: ExtractTags of the
\* clean text of a text returns that clean text.
C24_ExtractTagsIdempotent ==
    pPc = "extracted twice" => pResult.second.cleanText = pResult.first.cleanText

\* C25: the clean text ExtractTags returns holds no tag token, and no tag it
\* returns holds the character '#'.
C25_NoTagTokenSurvives ==
    pPc \in {"extracted", "extracted twice"} =>
        /\ ~HasTagToken(pResult.first.cleanText)
        /\ \A i \in 1..Len(pResult.first.tags) :
                \A j \in 1..Len(pResult.first.tags[i]) :
                    pResult.first.tags[i][j] # "#"

\* ---------------------------------------------- claims: datetime.Parse
PhraseResolved == pPc = "resolved"
\* How many days the date of t is after the date of relativeTo.
DaysAfter(t, relativeTo) == (StartOfDay(t) - StartOfDay(relativeTo)) \div DayUnits
ClockOf(t) == t - StartOfDay(t)
IsWeekdayName(w) == w \in DOMAIN weekdays \cup {"Friday", "FRI", "MONDAY"}
\* The weekday a name stands for, by the calendar.
NamedDay(w) ==
    CHOOSE n \in 0..6 :
        \/ n = 0 /\ w \in {"sunday", "sun"}
        \/ n = 1 /\ w \in {"monday", "mon", "MONDAY"}
        \/ n = 2 /\ w \in {"tuesday", "tue", "tues"}
        \/ n = 3 /\ w \in {"wednesday", "wed"}
        \/ n = 4 /\ w \in {"thursday", "thu", "thurs"}
        \/ n = 5 /\ w \in {"friday", "fri", "Friday", "FRI"}
        \/ n = 6 /\ w \in {"saturday", "sat"}
IsClock(w) == w \in {"10am", "15:05"}

\* C27: for a weekday name W, full or abbreviated, in any case, and a
\* reference instant R, Parse gives an instant strictly after R whose
\* weekday is W and whose date is 1 to 7 days after the date of R, exactly 7
\* if the weekday of R is W; the time of day is 09:00 without a time clause,
\* and a trailing clause that is no time of day makes Parse fail.
C27_NextWeekday ==
    (PhraseResolved /\ IsWeekdayName(pContent[1])) =>
        IF Len(pContent) = 2 /\ ~IsClock(pContent[2]) THEN ~pResult.ok
        ELSE /\ pResult.ok
             /\ pResult.t > pRelativeTo
             /\ Weekday(pResult.t) = NamedDay(pContent[1])
             /\ DaysAfter(pResult.t, pRelativeTo) \in 1..7
             /\ Weekday(pRelativeTo) = NamedDay(pContent[1])
                    => DaysAfter(pResult.t, pRelativeTo) = 7
             /\ Len(pContent) = 1 => ClockOf(pResult.t) = NineAM

\* "FRI" on a Friday before 09:00 resolved to the Friday of the week after.
C27_Witness ==
    /\ PhraseResolved
    /\ pContent = <<"FRI">>
    /\ Weekday(pRelativeTo) = 5
    /\ ClockOf(pRelativeTo) < NineAM
    /\ pResult.ok
    /\ DaysAfter(pResult.t, pRelativeTo) = 7

\* C28: for a reference instant R, Parse of "tomorrow" is the day after the
\* date of R at 09:00; "tomorrow <time>" is that day at the time of day
\* given, and a trailing clause that is no time of day makes Parse fail.
C28_Tomorrow ==
    (PhraseResolved /\ pContent[1] \in {"tomorrow", "Tomorrow"}) =>
        IF Len(pContent) = 2 /\ ~IsClock(pContent[2]) THEN ~pResult.ok
        ELSE /\ pResult.ok
             /\ DaysAfter(pResult.t, pRelativeTo) = 1
             /\ ClockOf(pResult.t) =
                    IF Len(pContent) = 1 THEN NineAM
                    ELSE IF pContent[2] = "10am" THEN 10 * HourUnits
                    ELSE 15 * HourUnits + 1

\* "tomorrow" five minutes before midnight resolved to 09:00 of the next day.
C28_Witness ==
    /\ PhraseResolved
    /\ pContent = <<"tomorrow">>
    /\ ClockOf(pRelativeTo) = DayUnits - 1
    /\ pResult.ok
    /\ pResult.t = pRelativeTo + 1 + NineAM

\* The phrase is one or more <integer><unit> pairs.
RECURSIVE IsPairs(_)
IsPairs(tokens) ==
    /\ Len(tokens) >= 2
    /\ tokens[1].digits
    /\ tokens[2] \in {CharToken(c) : c \in Units}
    /\ (Len(tokens) = 2 \/ IsPairs(SubSeq(tokens, 3, Len(tokens))))
\* The sum of the durations the pairs write, d = 24 hours.
RECURSIVE SumOfPairs(_)
SumOfPairs(tokens) ==
    IF tokens = <<>> THEN NoDuration
    ELSE DurationAdd(UnitProduct(tokens[1].num, tokens[2].char),
                     SumOfPairs(SubSeq(tokens, 3, Len(tokens))))

\* C26: for a phrase made of '+' and one or more <integer><unit> pairs
\* (units d, h, m, s), Parse returns the reference instant advanced by
\* exactly the sum of the durations of the pairs; a phrase with digits
\* missing before a unit, a trailing number without unit or an unknown unit
\* fails as a whole.
C26_RelativeSum ==
    pPc = "relative resolved" =>
        IF IsPairs(pContent)
        THEN pResult.ok /\ pResult.plus = SumOfPairs(pContent)
        ELSE ~pResult.ok

\* -------------------------------------------------- claims: state.Store
\* The fields a round trip is to keep.
Kept(r) == <<r.DateTime, r.Description, r.Tags, r.SourceFile, r.Status>>

\* C29: Save followed by Load yields the reminders of the saved collection
\* in the same order, each with equal when, description, tags, origin and
\* status.
C29_RoundTrip ==
    pPc = "loaded" =>
        /\ Len(pResult.loaded) = Len(pContent)
        /\ \A i \in 1..Len(pContent) : Kept(pResult.loaded[i]) = Kept(pContent[i])

\* C30: once every save that was started has ended, the state file holds
\* the collection as it is now.
C30_LatestSaveOnDisk ==
    pc = "run" /\ saves = <<>> => stateFile = Save(NoFile, reminders).file

\* ------------------------------------------- claims: keys of Reconcile
\* No two entries of s share origin and description.
UniqueKeys(s) ==
    \A i, j \in 1..Len(s) :
        (s[i].SourceFile = s[j].SourceFile /\ s[i].Description = s[j].Description)
            => i = j
UniqueDescriptions(s) ==
    \A i, j \in 1..Len(s) : s[i].Description = s[j].Description => i = j

\* C39: when no two existing reminders share origin and description and no
\* two fresh entries share a description, no two reminders of the output of
\* MergeFromFile share origin and description.
C39_KeysStayUnique ==
    (Merged /\ UniqueKeys(mExisting) /\ UniqueDescriptions(mNew)) => UniqueKeys(mOut)

C39_Witness ==
    /\ Merged
    /\ UniqueKeys(mExisting)
    /\ UniqueDescriptions(mNew)
    /\ \E i \in 1..Len(mExisting) : \E j \in 1..Len(mNew) :
            /\ OfFile(mExisting[i])
            /\ mExisting[i].Description = mNew[j].Description
            /\ mExisting[i] \in Range(mOut)
    /\ \E j \in 1..Len(mNew) : mNew[j] \in Range(mOut)

\* ------------------------------------------------ claims: Triggered is due
\* C37: in every state of the event loop a Triggered reminder of the
\* collection has its when strictly before the current time.
C37_TriggeredIsPast ==
    pc = "run" =>
        \A i \in 1..Len(reminders) :
            reminders[i].Status = Triggered => reminders[i].DateTime < now

\* An unacknowledge or an edit has just made a reminder Triggered.
C37_Witness ==
    /\ pc = "run"
    /\ lastEvent.kind \in {"Unacknowledge", "Edit"}
    /\ lastEvent.was # Triggered
    /\ \E i \in 1..Len(reminders) :
            reminders[i].Status = Triggered /\ reminders[i].DateTime < now

\* ------------------------------------------ claims: delete and re-parse
\* The reminders of s with origin f and description d.
Keyed(s, f, d) == {i \in 1..Len(s) : s[i].SourceFile = f /\ s[i].Description = d}

\* The last message deleted a Pending or Triggered reminder of a watched
\* document, no reminder of that document has its description, and this
\* step handles a parse of the document that holds the description.
ReparseAfterDelete ==
    /\ lastEvent.kind = "Delete"
    /\ lastEvent.was \in {Pending, Triggered}
    /\ \A d \in lastEvent.descs : Keyed(reminders, lastEvent.file, d) = {}
    /\ FileUpdateStep
    /\ lastEvent'.file = lastEvent.file
    /\ lastEvent.descs \subseteq lastEvent'.descs

\* C38: a Pending or Triggered reminder of a document that the user deleted
\* is in the collection again after the next parse of the document that
\* holds its description: as a Pending reminder of that parse (it has the
\* line number of its marker, which no reminder had before).
C38_DeletedComesBack ==
    [][ReparseAfterDelete =>
          \A d \in lastEvent.descs :
              /\ Keyed(reminders', lastEvent.file, d) # {}
              /\ \A i \in Keyed(reminders', lastEvent.file, d) :
                    /\ reminders'[i].Status = Pending
                    /\ reminders'[i].LineNumber >= 1]_vars

\* A delete of a reminder of the watched document has been handled and a
\* reminder of another origin has the description of the deleted one.
C38_Witness ==
    /\ lastEvent.kind = "Delete"
    /\ lastEvent.was \in {Pending, Triggered}
    /\ lastEvent.file \in WatchedFiles
    /\ budget > 0
    /\ \E d \in lastEvent.descs :
            /\ Keyed(reminders, lastEvent.file, d) = {}
            /\ Keyed(reminders, TUIOrigin, d) # {}

\* ------------------------------------------------ claims: the detail view
\* C35: "dd" in the detail view removes the reminder the view shows, and
\* only it.
C35_DetailDeletesDisplayed ==
    [][(mode = "detail" /\ lastEvent'.kind = "Delete") =>
          /\ detailReminder.at # 0
          /\ reminders' = Renumber(RemoveAt(reminders, detailReminder.at))]_vars

\* ----------------------------------------- claims: edit after a re-parse
\* C36: when the submission of an edit succeeds, the edited reminder is in
\* the collection with the submitted when and description.
C36_EditedIsMember ==
    [][(EditEnter /\ mode' = "normal") =>
          /\ editingReminder.at # 0
          /\ \E input \in EditInputs :
                /\ InputError(input, now) = ""
                /\ LET parsed == TryPrefixes(input, now, Len(input) - 1)
                       old == reminders[editingReminder.at]
                   IN \E i \in 1..Len(reminders') :
                        /\ reminders'[i].DateTime = parsed.DateTime
                        /\ reminders'[i].Description = parsed.Description
                        /\ reminders'[i].SourceFile = old.SourceFile
                        /\ reminders'[i].LineNumber = old.LineNumber]_vars

\* ------------------------------------------------- claims: the watcher
\* The serials of the events in the sequence q.
Serials(q) == {q[i].n : i \in 1..Len(q)}
AppliedSerials == {applied[i] : i \in 1..Len(applied)}

\* C33: a scan that completes after Watcher.Stop crashes nothing, no send
\* meets a closed channel, and its result is never applied: once main has
\* stopped the watcher the collection no longer changes and no file event is
\* handled.
C33_LateScanDiscarded ==
    [][/\ ~goroutines'.panicked
       /\ goroutines'.late \cap {applied'[i] : i \in 1..Len(applied')} = {}
       /\ pc = "stopped" => UNCHANGED <<reminders, applied>>]_vars
\* A scan finished after the stop, was sent on w.Events, and main's goroutine
\* passed it on to tuiEvents, where it stays.
C33_Witness ==
    /\ pc = "stopped"
    /\ ~goroutines.panicked
    /\ goroutines.late \cap Serials(channels.tuiEvents) # {}

\* The reminders of document f in the collection s.
OfDocument(s, f) == SelectSeq(s, LAMBDA r : r.SourceFile = f)
\* The messages on their way from main's goroutine to Update.
Forwarded == goroutines.fwdHand \o channels.tuiEvents \o goroutines.held

\* C31: a document whose read or scan fails changes nothing.  In the initial
\* scan of a directory the startup merge and the sort after it leave its
\* reminders as they were loaded, field by field, and, when the program starts to run, every reminder parsed from the
\* other documents has its entry in the collection.  A file event with an
\* error never gets to Update: no message on the way carries it, the handled
\* events are none of the failed ones, and the collection of the running
\* program changes with the handling of a parsed event only.
C31_FailedScanChangesNothing ==
    [][/\ pc = "merge" =>
            /\ \A f \in goroutines.scanFailed :
                    SameVals(OfDocument(reminders', f), OfDocument(reminders, f))
            /\ pc' = "run" =>
                    \A i \in 1..Len(fileReminders) :
                        Keyed(reminders', fileReminders[i].SourceFile,
                              fileReminders[i].Description) # {}
       /\ \A i \in 1..Len(Forwarded') : ~Forwarded'[i].Err
       /\ goroutines'.failed \cap {applied'[i] : i \in 1..Len(applied')} = {}
       /\ (pc = "run" /\ reminders' # reminders) =>
            /\ Len(applied') = Len(applied) + 1
            /\ applied'[Len(applied')] \notin goroutines.failed]_vars
\* The scan of f1.md failed at the start, its loaded reminder is in the
\* running program and a reminder of f2.md came in from the scan; the first
\* file event failed and the second one was handled.
C31_Witness ==
    /\ pc = "run"
    /\ goroutines.scanFailed = {"f1.md"}
    /\ OfDocument(reminders, "f1.md") # <<>>
    /\ OfDocument(reminders, "f2.md") # <<>>
    /\ goroutines.failed = {1}
    /\ applied = <<2>>

\* The parsed file events with a serial below n.
ParsedBelow(n) == {k \in 1..(n - 1) : k \notin goroutines.failed}

\* C32: the parses of the watcher reach the collection as FileUpdate
\* messages of the event loop only, one at a time and in the order of the
\* file events: a step of a goroutine leaves the collection alone, a step
\* that changes it handles exactly one more event, the handled serials grow,
\* every parsed event before a handled one has been handled, and the waits
\* on tuiEvents, the one that holds a message included, are never more than
\* one.
C32_AppliedOnceInOrder ==
    [][/\ goroutines'.waits + Len(goroutines'.held) <= 1
       /\ \A i \in 1..Len(applied') :
            /\ \A j \in 1..(i - 1) : applied'[j] < applied'[i]
            /\ ParsedBelow(applied'[i]) \subseteq {applied'[j] : j \in 1..(i - 1)}
       /\ \/ applied' = applied /\ (pc = "run" => reminders' = reminders)
          \/ /\ Len(applied') = Len(applied) + 1
             /\ SubSeq(applied', 1, Len(applied)) = applied]_vars
\* Two documents changed, both events were parsed and both were handled, the
\* second after a wait started by the handling of the first.
C32_Witness ==
    /\ applied = <<1, 2>>
    /\ goroutines.waits = 1
    /\ \E i, j \in 1..Len(reminders) :
            reminders[i].SourceFile = "f1.md" /\ reminders[j].SourceFile = "f2.md"

\* ---------------------------------------------------- claims: the tick
\* A Pending reminder with the description d whose when has passed.
PendingDue(d) ==
    \E i \in 1..Len(reminders) :
        /\ reminders[i].Description = d
        /\ reminders[i].Status = Pending
        /\ IsDue(reminders[i], now)

\* C34: while the program runs one tick is armed, whatever the input mode:
\* the handling of a tick arms the next.  A handled tick turns every Pending
\* reminder whose when had passed into Triggered, so with the timer firing a
\* Pending reminder past its when does not stay so: it is triggered by the
\* tick, or acknowledged first, or the program is quit.
C34_TicksRecur ==
    /\ [](pc = "run" => goroutines.ticks = 1)
    /\ [][TickFromTimer =>
            \A i \in 1..Len(reminders) :
                (reminders[i].Status = Pending /\ IsDue(reminders[i], now)) =>
                    reminders'[i].Status = Triggered]_vars
    /\ \A d \in Descriptions :
            PendingDue(d) ~> (~PendingDue(d) \/ pc # "run")
\* With the filter input open the clock passed the when of a Pending reminder
\* during a tick, which triggered it and armed the next tick.
C34_Witness ==
    /\ pc = "run"
    /\ mode = "filter"
    /\ lastEvent.kind = "Tick" /\ lastEvent.at = 0
    /\ now = 1
    /\ goroutines.ticks = 1
    /\ \E i \in 1..Len(reminders) :
            reminders[i].DateTime = 0 /\ reminders[i].Status = Triggered

====
